---- MODULE Spec2Model ----
(***************************************************************************)
(* Plan lifecycle, execution control loop and failsafe monitor of the      *)
(* agent platform: Overseer (tools/overseer/overseer.py), Memory           *)
(* (tools/memory/memory.py), FailsafeSystem (tools/safety/failsafes.py)    *)
(* and the retry loop of main.py; the planning of the OverseerAgent        *)
(* (tools/overseer/overseer_agent.py) and the handling of an LLM's answer  *)
(* by the agents (tools/agents/base_agent.py, gpt_oss_agent.py).           *)
(***************************************************************************)
EXTENDS Integers, Sequences, FiniteSets, TLC

VARIABLES
    \* FailsafeSystem
    safety_status,        \* SafetyStatus dataclass
    step_count,
    screenshot_count,
    request_count,
    run_time,             \* time.time() - start_time as _check_budgets computes it
    dev_disable_safety,   \* DISABLE_KILLSWITCH, read once by the constructor
    killswitch_file,      \* control/killswitch.on exists
    pause_file,           \* control/pause.on exists
    \* Memory
    goals,                \* goal id -> Goal (ids are 1..Len(goals))
    plans,                \* plan id -> Plan (ids are 1..Len(plans))
    \* Overseer
    agents,               \* names of the registered agents
    current_goal,         \* 0 is None
    current_plan,         \* 0 is None
    execution_history,
    \* control state of the main thread
    pc,
    step_index,           \* loop variable of execute_plan
    success,              \* value returned by execute_plan / run
    retry_count,          \* main's retry counter
    \* observation of the run, not program state
    dispatched,           \* every call of _execute_step: <<plan id, step index>>
    exit_at,              \* return statement execute_plan left through
    hist_base,            \* Len(execution_history) when execute_plan was entered
    \* OverseerAgent._create_plan (the approval loop)
    agent_pc,             \* position in _create_plan
    iteration,
    consecutive_failures,
    response,             \* the response dict of the latest iteration
    debug_mode,           \* config/mode.json debug_mode
    critic_attached,      \* a critic_agent was injected into the OverseerAgent
    \* observation of the approval loop, not program state
    drafts_requested,     \* calls of the planner during this call
    approved_at,          \* iteration in which the critic's score passed, 0 if none
    best_score,           \* highest score a critic gave during this call, -1 if none
    best_plan,            \* the plan of the iteration that got it
    nonempty_seen,        \* some iteration produced a non-empty plan
    improved_plan,        \* result of the latest iteration's improvement, <<>> if none
    scored_plan,          \* plan the critic scored in the latest iteration, <<>> if none
    handed,               \* where the plan given to execute_plan came from
    \* one call of the drafting pipeline on its own
    pipe_in,              \* the steps passed in
    pipe_cleaned,         \* what _clean_plan_steps returned, <<>> before it ran
    pipe_out,             \* the steps returned by the latest stage
    pipe_stage,
    \* one call of Overseer._execute_step on its own
    phase_responses,      \* what each agent's process() does when called
    step_pc,
    step_returned,        \* the value _execute_step returned
    \* one executor response and its interpretation
    exec_response,        \* the response dict
    interpret_pc,         \* who interpreted it
    interpreted,          \* the outcome: success or not
    \* one call of BaseAgent._extract_text_from_llm_response
    response_parts,       \* the pieces the LLM's text is made of (observation)
    llm_response,         \* the text, character by character
    extract_pc,
    extracted,            \* the text returned
    \* one call of GPTOSS20BAgent.process from the LLM's answer on
    input_data,           \* the prompt dict process was called with
    json_response,        \* what the extraction handed over
    parsed_response,      \* the dict being completed and validated
    process_pc,
    process_out,          \* the response dict process returned
    \* the threads of the process followed statement by statement
    loaded_step_count,    \* increment_step: the value read for step_count += 1
    wd_pc,                \* the watchdog thread's position in its loop
    caller_pc,            \* position of the thread calling the FailsafeSystem
    no_killswitch,        \* main was started with --no-killswitch
    \* observation of the calls, not program state
    kill_lifted,          \* what last lifted the killswitch, nothing raised it since
    pause_held            \* pause_system returned and nothing resumed since

failsafe_vars == <<safety_status, step_count, screenshot_count, request_count,
                   run_time, dev_disable_safety, killswitch_file, pause_file>>
memory_vars == <<goals, plans>>
overseer_vars == <<agents, current_goal, current_plan, execution_history>>
main_vars == <<pc, step_index, success, retry_count>>
observer_vars == <<dispatched, exit_at, hist_base>>
approval_vars == <<agent_pc, iteration, consecutive_failures, response,
                   debug_mode, critic_attached>>
approval_observer_vars == <<drafts_requested, approved_at, best_score, best_plan,
                            nonempty_seen, improved_plan, scored_plan, handed>>
pipeline_vars == <<pipe_in, pipe_cleaned, pipe_out, pipe_stage>>
step_call_vars == <<phase_responses, step_pc, step_returned>>
interpret_vars == <<exec_response, interpret_pc, interpreted>>
extract_vars == <<response_parts, llm_response, extract_pc, extracted>>
process_vars == <<input_data, json_response, parsed_response, process_pc,
                  process_out>>
thread_vars == <<loaded_step_count, wd_pc, caller_pc, no_killswitch,
                 kill_lifted, pause_held>>
\* what a call followed on its own leaves alone, the Overseer's own
\* variables apart
bystander_vars == <<failsafe_vars, memory_vars, main_vars, observer_vars,
                    approval_vars, approval_observer_vars, pipeline_vars,
                    thread_vars>>
call_vars == <<step_call_vars, interpret_vars, extract_vars, process_vars,
               thread_vars>>
\* what the threads followed statement by statement leave alone
offstage_vars == <<memory_vars, overseer_vars, main_vars, observer_vars,
                   approval_vars, approval_observer_vars, pipeline_vars,
                   step_call_vars, interpret_vars, extract_vars, process_vars>>
agent_vars == <<approval_vars, approval_observer_vars, pipeline_vars, call_vars>>
coordinator_vars == <<memory_vars, overseer_vars, main_vars, observer_vars,
                      agent_vars>>
vars == <<failsafe_vars, memory_vars, overseer_vars, main_vars, observer_vars,
          agent_vars>>

----------------------------------------------------------------------------
\* Bounds of the model

\* main.py --retries (default 3): runs of the same Overseer on one goal
MaxRetries == 2
\* longest plan the planner returns
MaxPlanLen == 1
\* BudgetLimits (policies.yml; defaults 1200 / 200 / 300 / 100), scaled down
max_run_seconds == 0
max_steps == 1
max_screenshots == 0
max_requests == 0
\* cap of the loop-detection counters
RepeatCap == 3

Tools == {"browser", "mouse"}
Signatures == {"click@1", "type@2"}

----------------------------------------------------------------------------
\* FailsafeSystem

\* SafetyStatus as FailsafeSystem.__init__ builds it
InitSafetyStatus ==
    [killswitch_active |-> FALSE,
     pause_active |-> FALSE,
     budget_exceeded |-> FALSE,
     circuit_breakers |-> [t \in Tools |-> "absent"],
     loop_detection |-> [s \in Signatures |-> 0]]

\* faulty variant: the killswitch flag follows its file as the pause flag does
_check_control_files_mirror(ss) ==
    [ss EXCEPT !.killswitch_active = killswitch_file, !.pause_active = pause_file]

\* faulty variant: the pause flag is set but never cleared
_check_control_files_set_only(ss) ==
    LET k == IF killswitch_file THEN TRUE ELSE ss.killswitch_active
        p == IF pause_file THEN TRUE ELSE ss.pause_active
    IN  [ss EXCEPT !.killswitch_active = k, !.pause_active = p]

\* _check_control_files: the kill file only ever sets the flag, the pause
\* file sets and clears it
_check_control_files(ss) ==
    LET k == IF killswitch_file THEN TRUE ELSE ss.killswitch_active
        p == IF pause_file THEN TRUE ELSE FALSE
    IN  [ss EXCEPT !.killswitch_active = k, !.pause_active = p]

\* faulty variant: the step count is not compared
_check_budgets_without_steps(ss) ==
    LET b1 == IF run_time > max_run_seconds THEN TRUE ELSE ss.budget_exceeded
        b3 == IF screenshot_count > max_screenshots THEN TRUE ELSE b1
    IN  [ss EXCEPT !.budget_exceeded = b3]

\* _check_budgets: run time, steps and screenshots are compared, requests
\* are not; the flag is only ever set
_check_budgets(ss) ==
    LET b1 == IF run_time > max_run_seconds THEN TRUE ELSE ss.budget_exceeded
        b2 == IF step_count > max_steps THEN TRUE ELSE b1
        b3 == IF screenshot_count > max_screenshots THEN TRUE ELSE b2
    IN  [ss EXCEPT !.budget_exceeded = b3]

\* faulty variant: the override is consulted after the killswitch
can_proceed_late_override ==
    IF safety_status.killswitch_active THEN FALSE
    ELSE IF dev_disable_safety THEN TRUE
    ELSE IF safety_status.pause_active THEN FALSE
    ELSE IF safety_status.budget_exceeded THEN FALSE
    ELSE TRUE

\* faulty variant: an open circuit breaker blocks as well
can_proceed_breakers ==
    IF dev_disable_safety THEN TRUE
    ELSE IF safety_status.killswitch_active THEN FALSE
    ELSE IF safety_status.pause_active THEN FALSE
    ELSE IF safety_status.budget_exceeded THEN FALSE
    ELSE \A t \in Tools : safety_status.circuit_breakers[t] # "open"

\* can_proceed
can_proceed ==
    IF dev_disable_safety THEN TRUE
    ELSE IF safety_status.killswitch_active THEN FALSE
    ELSE IF safety_status.pause_active THEN FALSE
    ELSE IF safety_status.budget_exceeded THEN FALSE
    ELSE TRUE

\* check_circuit_breaker: a tool never touched counts as closed
check_circuit_breaker(tool_name) ==
    LET status == IF safety_status.circuit_breakers[tool_name] = "absent"
                  THEN "closed"
                  ELSE safety_status.circuit_breakers[tool_name]
    IN  status = "closed"

\* default of check_loop_detection's max_repeats
DefaultMaxRepeats == 3

\* check_loop_detection
check_loop_detection(action_signature, max_repeats) ==
    ~(safety_status.loop_detection[action_signature] >= max_repeats)

\* one pass of _watchdog_loop: control files, then budgets (the heartbeat
\* file is written from the state and changes none of it)
WatchdogTick ==
    /\ safety_status' = _check_budgets(_check_control_files(safety_status))
    /\ UNCHANGED <<step_count, screenshot_count, request_count, run_time,
                   dev_disable_safety, killswitch_file, pause_file>>
    /\ UNCHANGED coordinator_vars

\* wall-clock time passes: the run time the watchdog computes goes from
\* within max_run_seconds to beyond it
ClockTick ==
    /\ run_time <= max_run_seconds
    /\ run_time' = max_run_seconds + 1
    /\ UNCHANGED <<safety_status, step_count, screenshot_count, request_count,
                   dev_disable_safety, killswitch_file, pause_file>>
    /\ UNCHANGED coordinator_vars

\* faulty variant: only the control file is created, the flag is left to
\* the watchdog
activate_killswitch_file_only ==
    /\ killswitch_file' = TRUE
    /\ UNCHANGED <<safety_status, step_count, screenshot_count, request_count,
                   run_time, dev_disable_safety, pause_file>>
    /\ UNCHANGED coordinator_vars

\* activate_killswitch; also the SIGINT / SIGTERM handler
activate_killswitch ==
    /\ safety_status' = [safety_status EXCEPT !.killswitch_active = TRUE]
    /\ killswitch_file' = TRUE
    /\ UNCHANGED <<step_count, screenshot_count, request_count, run_time,
                   dev_disable_safety, pause_file>>
    /\ UNCHANGED coordinator_vars

\* faulty variant: lifting the killswitch also clears the budget flag
deactivate_killswitch_reset ==
    /\ safety_status' = [safety_status EXCEPT !.killswitch_active = FALSE,
                                              !.budget_exceeded = FALSE]
    /\ killswitch_file' = FALSE
    /\ UNCHANGED <<step_count, screenshot_count, request_count, run_time,
                   dev_disable_safety, pause_file>>
    /\ UNCHANGED coordinator_vars

\* deactivate_killswitch: clears the flag and removes the control file
deactivate_killswitch ==
    /\ safety_status' = [safety_status EXCEPT !.killswitch_active = FALSE]
    /\ killswitch_file' = FALSE
    /\ UNCHANGED <<step_count, screenshot_count, request_count, run_time,
                   dev_disable_safety, pause_file>>
    /\ UNCHANGED coordinator_vars

pause_system ==
    /\ safety_status' = [safety_status EXCEPT !.pause_active = TRUE]
    /\ pause_file' = TRUE
    /\ UNCHANGED <<step_count, screenshot_count, request_count, run_time,
                   dev_disable_safety, killswitch_file>>
    /\ UNCHANGED coordinator_vars

resume_system ==
    /\ safety_status' = [safety_status EXCEPT !.pause_active = FALSE]
    /\ pause_file' = FALSE
    /\ UNCHANGED <<step_count, screenshot_count, request_count, run_time,
                   dev_disable_safety, killswitch_file>>
    /\ UNCHANGED coordinator_vars

\* the operator creates or removes a control file out of band (bin/stop,
\* bin/pause and their clean-up)
ControlFileKill ==
    /\ killswitch_file' = ~killswitch_file
    /\ UNCHANGED <<safety_status, step_count, screenshot_count, request_count,
                   run_time, dev_disable_safety, pause_file>>
    /\ UNCHANGED coordinator_vars

ControlFilePause ==
    /\ pause_file' = ~pause_file
    /\ UNCHANGED <<safety_status, step_count, screenshot_count, request_count,
                   run_time, dev_disable_safety, killswitch_file>>
    /\ UNCHANGED coordinator_vars

increment_step ==
    /\ step_count <= max_steps
    /\ step_count' = step_count + 1
    /\ UNCHANGED <<safety_status, screenshot_count, request_count, run_time,
                   dev_disable_safety, killswitch_file, pause_file>>
    /\ UNCHANGED coordinator_vars

increment_screenshot ==
    /\ screenshot_count <= max_screenshots
    /\ screenshot_count' = screenshot_count + 1
    /\ UNCHANGED <<safety_status, step_count, request_count, run_time,
                   dev_disable_safety, killswitch_file, pause_file>>
    /\ UNCHANGED coordinator_vars

increment_request ==
    /\ request_count <= max_requests
    /\ request_count' = request_count + 1
    /\ UNCHANGED <<safety_status, step_count, screenshot_count, run_time,
                   dev_disable_safety, killswitch_file, pause_file>>
    /\ UNCHANGED coordinator_vars

\* faulty variant: the breaker of every tool is opened
open_every_circuit_breaker ==
    /\ safety_status' = [safety_status EXCEPT
                            !.circuit_breakers = [t \in Tools |-> "open"]]
    /\ UNCHANGED <<step_count, screenshot_count, request_count, run_time,
                   dev_disable_safety, killswitch_file, pause_file>>
    /\ UNCHANGED coordinator_vars

open_circuit_breaker ==
    \E t \in Tools :
        /\ safety_status' = [safety_status EXCEPT !.circuit_breakers[t] = "open"]
        /\ UNCHANGED <<step_count, screenshot_count, request_count, run_time,
                       dev_disable_safety, killswitch_file, pause_file>>
        /\ UNCHANGED coordinator_vars

close_circuit_breaker ==
    \E t \in Tools :
        /\ safety_status' = [safety_status EXCEPT !.circuit_breakers[t] = "closed"]
        /\ UNCHANGED <<step_count, screenshot_count, request_count, run_time,
                       dev_disable_safety, killswitch_file, pause_file>>
        /\ UNCHANGED coordinator_vars

\* faulty variant: every signature's counter is raised
record_every_action ==
    /\ \E s \in Signatures : safety_status.loop_detection[s] < RepeatCap
    /\ safety_status' = [safety_status EXCEPT
                            !.loop_detection =
                                [s \in Signatures |->
                                    IF safety_status.loop_detection[s] < RepeatCap
                                    THEN safety_status.loop_detection[s] + 1
                                    ELSE safety_status.loop_detection[s]]]
    /\ UNCHANGED <<step_count, screenshot_count, request_count, run_time,
                   dev_disable_safety, killswitch_file, pause_file>>
    /\ UNCHANGED coordinator_vars

\* record_action: the signature's counter, 0 when it was never recorded,
\* goes up by one
record_action ==
    \E s \in Signatures :
        /\ safety_status.loop_detection[s] < RepeatCap
        /\ safety_status' = [safety_status EXCEPT
                                !.loop_detection[s] = safety_status.loop_detection[s] + 1]
        /\ UNCHANGED <<step_count, screenshot_count, request_count, run_time,
                       dev_disable_safety, killswitch_file, pause_file>>
        /\ UNCHANGED coordinator_vars

----------------------------------------------------------------------------
\* Memory

\* add_goal: a new Goal with status "pending"; its id is the next free one
add_goal(gs) == Append(gs, [id |-> Len(gs) + 1, status |-> "pending"])

\* update_goal_status
update_goal_status(gs, goal_id, status) ==
    IF goal_id \in 1..Len(gs) THEN [gs EXCEPT ![goal_id].status = status] ELSE gs

\* Memory.create_plan: a new Plan with current_step 0 and status "pending"
memory_create_plan(ps, goal_id, steps) ==
    Append(ps, [id |-> Len(ps) + 1, goal_id |-> goal_id, steps |-> steps,
                current_step |-> 0, status |-> "pending"])

\* faulty variant: the status argument is dropped
update_plan_step_no_status(ps, plan_id, current_step, status) ==
    IF plan_id \in 1..Len(ps)
    THEN [ps EXCEPT ![plan_id].current_step = current_step]
    ELSE ps

\* faulty variant: the step is stored one too far
update_plan_step_off_by_one(ps, plan_id, current_step, status) ==
    IF plan_id \in 1..Len(ps)
    THEN [ps EXCEPT ![plan_id].current_step = current_step + 1,
                    ![plan_id].status = IF status # "" THEN status ELSE @]
    ELSE ps

\* update_plan_step; status "" is the default None, which keeps the status
update_plan_step(ps, plan_id, current_step, status) ==
    IF plan_id \in 1..Len(ps)
    THEN [ps EXCEPT ![plan_id].current_step = current_step,
                    ![plan_id].status = IF status # "" THEN status ELSE @]
    ELSE ps

----------------------------------------------------------------------------
\* Plan steps

\* A raw step of a planner response: a string (kind "str", blank when it is
\* empty after strip), a dict (kind "dict") or something else (kind
\* "other"). Of a dict: next_agent, agent and action are "" when the key is
\* missing or empty; description is "absent" when the key is missing, ""
\* when it is empty; coordinates tells whether the key holds coordinates;
\* id is 0 when the key is missing.
RawStepWith(kind, blank, next_agent, agent, action, description, coordinates, id) ==
    [kind |-> kind, blank |-> blank, next_agent |-> next_agent,
     agent |-> agent, action |-> action, description |-> description,
     coordinates |-> coordinates, id |-> id]

RawStep(kind, blank, next_agent, agent, action) ==
    RawStepWith(kind, blank, next_agent, agent, action, "absent", FALSE, 0)

StrStep == RawStep("str", FALSE, "", "", "")
DictStep(next_agent, action) == RawStep("dict", FALSE, next_agent, "", action)

\* a structured step as _clean_plan_steps builds it: the six keys id,
\* description, next_agent, action, success_criteria and priority, and no
\* other (no agent, no coordinates)
CleanedStep(id, description, next_agent, action) ==
    RawStepWith("dict", FALSE, next_agent, "", action, description, FALSE, id)

\* the four fallback steps of Overseer.create_plan, all strings
FallbackPlan == <<StrStep, StrStep, StrStep, StrStep>>

\* the four steps _clean_plan_steps returns when nothing is left
DefaultCleanPlan ==
    <<CleanedStep(1, "text", "perception", "analyze"),
      CleanedStep(2, "text", "overseer", "plan"),
      CleanedStep(3, "text", "operator", "execute"),
      CleanedStep(4, "text", "overseer", "evaluate")>>

AllowedOps == {"move_mouse", "click", "type", "scroll", "navigate"}

\* str(next_agent).lower()
Lower(name) == IF name = "Operator" THEN "operator" ELSE name

\* _clean_plan_steps, one step (the i-th of the list, from 1): the
\* structured form of a string or dict
clean_step(step, i) ==
    IF step.kind = "str"
    THEN CleanedStep(i, "text", "perception", "analyze")
    ELSE LET na0 == IF step.next_agent # "" THEN step.next_agent
                    ELSE IF step.agent # "" THEN step.agent
                    ELSE "perception"
             na == IF Lower(na0) \in {"perception", "operator", "overseer"}
                   THEN Lower(na0) ELSE "perception"
             a0 == IF step.action # "" THEN step.action
                   ELSE IF na = "perception" THEN "analyze"
                   ELSE IF na = "operator" THEN "navigate"
                   ELSE "plan"
             a == IF na = "operator" /\ a0 \notin AllowedOps THEN "navigate" ELSE a0
             d == IF step.description = "absent" THEN "default" ELSE step.description
             n == IF step.id = 0 THEN i ELSE step.id
         IN  CleanedStep(n, d, na, a)

RECURSIVE clean_each(_, _)
clean_each(steps, i) ==
    IF steps = <<>> THEN <<>>
    ELSE LET s == Head(steps)
             keep == \/ s.kind = "str" /\ ~s.blank
                     \/ s.kind = "dict"
         IN  (IF keep THEN <<clean_step(s, i)>> ELSE <<>>)
             \o clean_each(Tail(steps), i + 1)

\* _clean_plan_steps without the four steps it falls back to
_clean_plan_steps_may_be_empty(steps) == clean_each(steps, 1)

\* _clean_plan_steps
_clean_plan_steps(steps) ==
    LET cleaned_steps == clean_each(steps, 1)
    IN  IF cleaned_steps = <<>> THEN DefaultCleanPlan ELSE cleaned_steps

\* the i-th step of a planner's draft: dicts lacking keys or naming an
\* unsupported action, and strings, in turn
DraftStep(i) ==
    IF i % 3 = 1 THEN DictStep("operator", "press")
    ELSE IF i % 3 = 2 THEN StrStep
    ELSE DictStep("", "")

\* plans a planner response carries: none, and drafts of every length
DraftPlans ==
    {[i \in 1..n |-> DraftStep(i)] : n \in 0..MaxPlanLen}

\* responses of OverseerAgent.process to the planning prompt
PlannerResponses ==
    [success : BOOLEAN, plan : DraftPlans]

----------------------------------------------------------------------------
\* OverseerAgent: capabilities, preconditions, critic

\* CAPABILITIES[ag]["actions"]; a role it does not list allows nothing
CAPABILITIES(ag) ==
    IF ag = "perception" THEN {"analyze", "identify"}
    ELSE IF ag = "operator" THEN {"move_mouse", "click", "type", "scroll", "navigate"}
    ELSE IF ag = "overseer" THEN {"plan", "coordinate", "evaluate", "complete"}
    ELSE IF ag = "critic" THEN {"evaluate"}
    ELSE IF ag = "router" THEN {"validate", "block", "allow", "circuit_breaker"}
    ELSE {}

\* the safe default action of a role
default_action(ag) ==
    IF ag = "perception" THEN "analyze"
    ELSE IF ag = "operator" THEN "navigate"
    ELSE "plan"

\* needs_coords
needs_coords(s) ==
    s.next_agent = "operator" /\ s.action \in {"move_mouse", "click", "scroll"}

\* the synthetic step inserted before an operator step that lacks
\* coordinates; its id is None until the renumbering
IdentifyStep ==
    RawStepWith("dict", FALSE, "perception", "", "identify", "identify", FALSE, 0)

\* faulty variant: an action outside the role's set is left as it is
coerce_action_unchecked(ag, act) == act

\* the action a step is left with: the role's default when the step's
\* action is not in the role's set
coerce_action(ag, act) ==
    IF act \notin CAPABILITIES(ag) THEN default_action(ag) ELSE act

\* one pass of the loop of _enforce_capabilities_and_preconditions: what is
\* appended to out for step s
enforce_step(s) ==
    LET ag == IF s.next_agent = "" THEN "perception" ELSE s.next_agent
        act == IF s.action # "" THEN s.action ELSE default_action(ag)
        s1 == [s EXCEPT !.action = coerce_action(ag, act)]
    IN  (IF needs_coords(s1) /\ ~s1.coordinates THEN <<IdentifyStep>> ELSE <<>>)
        \o <<s1>>

RECURSIVE enforce_each(_)
enforce_each(steps) ==
    IF steps = <<>> THEN <<>>
    ELSE enforce_step(Head(steps)) \o enforce_each(Tail(steps))

\* the renumbering at the end: ids 1, 2, ... in order
renumber(out) == [i \in 1..Len(out) |-> [out[i] EXCEPT !.id = i]]

\* faulty variant: the ids are left as they were
_enforce_without_renumbering(steps) == enforce_each(steps)

\* _enforce_capabilities_and_preconditions
_enforce_capabilities_and_preconditions(steps) == renumber(enforce_each(steps))

\* a critic's verdict: present or not (None, or an exception), its
\* overall_score in tenths, and whether issues_found is non-empty
Verdict(present, overall_score, issues_found) ==
    [present |-> present, overall_score |-> overall_score,
     issues_found |-> issues_found]

\* scores a critic agent gives, in tenths (0 also when the key is missing)
CriticScores == {0, 7, 8, 10}

\* what critic_agent.process returns for "evaluate"
CriticVerdicts ==
    {Verdict(FALSE, 0, FALSE)}
    \cup {Verdict(TRUE, sc, i) : sc \in CriticScores, i \in BOOLEAN}

\* number of elements of a sequence of booleans that are true
RECURSIVE CountTrue(_)
CountTrue(flags) ==
    IF flags = <<>> THEN 0
    ELSE (IF Head(flags) THEN 1 ELSE 0) + CountTrue(Tail(flags))

\* _fallback_plan_validation: one issue per missing description, next_agent
\* and action of a dict step and per step that is no dict; the score is
\* max(0, 1 - 0.2 * issues), in tenths
_fallback_plan_validation(plan_steps) ==
    LET issues ==
            IF plan_steps = <<>> THEN 1
            ELSE CountTrue([i \in 1..Len(plan_steps) |->
                               plan_steps[i].kind # "dict"])
                 + CountTrue([i \in 1..Len(plan_steps) |->
                               plan_steps[i].kind = "dict"
                               /\ plan_steps[i].description \in {"", "absent"}])
                 + CountTrue([i \in 1..Len(plan_steps) |->
                               plan_steps[i].kind = "dict"
                               /\ plan_steps[i].next_agent = ""])
                 + CountTrue([i \in 1..Len(plan_steps) |->
                               plan_steps[i].kind = "dict"
                               /\ plan_steps[i].action = ""])
        plan_quality == IF 10 - issues * 2 > 0 THEN 10 - issues * 2 ELSE 0
    IN  Verdict(TRUE, plan_quality, issues > 0)

\* _validate_plan_with_critic: the attached critic's answer, or the fallback
\* validation when no critic is attached
_validate_plan_with_critic(attached, plan_steps, answer) ==
    IF attached THEN answer ELSE _fallback_plan_validation(plan_steps)

\* _apply_improvements: for each recommendation that names a field, a dict
\* step lacking that field gets the default; a step that is no dict becomes
\* a structured perception step
_apply_improvements(plan_steps, recommendations) ==
    [i \in 1..Len(plan_steps) |->
        LET step == plan_steps[i]
        IN  IF step.kind = "dict"
            THEN [step EXCEPT
                    !.description = IF "description" \in recommendations
                                       /\ @ \in {"", "absent"}
                                    THEN "default" ELSE @,
                    !.next_agent = IF "next_agent" \in recommendations /\ @ = ""
                                   THEN "perception" ELSE @,
                    !.action = IF "action" \in recommendations /\ @ = ""
                               THEN "analyze" ELSE @]
            ELSE CleanedStep(i, "text", "perception", "analyze")]

\* what critic_agent.process returns for "improve": whether it succeeded
\* and the fields its recommendations name
Improvements ==
    [success : BOOLEAN, recommendations : {{}, {"description"}}]

\* _improve_plan_with_critic: the improved steps; <<>> stands for None (and
\* is as falsy as None to the caller)
_improve_plan_with_critic(attached, plan_steps, improvement) ==
    IF attached /\ improvement.success
    THEN _apply_improvements(plan_steps, improvement.recommendations)
    ELSE <<>>

----------------------------------------------------------------------------
\* Overseer

AllAgents == {"overseer", "perception", "operator"}

\* what an agent's process() does with a prompt
Responses == {"success", "failure", "raise"}

\* _execute_perception_step: "ok" with a result (a failed response is
\* replaced by a stand-in result), or the agent's exception
_execute_perception_step(resp) ==
    IF "perception" \notin agents THEN "ok"
    ELSE IF resp = "raise" THEN "raise"
    ELSE "ok"

\* _execute_planning_step: "ok" with a result, "none", or the exception
_execute_planning_step(resp) ==
    IF "overseer" \notin agents THEN "ok"
    ELSE IF resp = "raise" THEN "raise"
    ELSE IF resp = "success" THEN "ok" ELSE "none"

\* _execute_operation_step
_execute_operation_step(resp) ==
    IF "operator" \notin agents THEN "ok"
    ELSE IF resp = "raise" THEN "raise"
    ELSE IF resp = "success" THEN "ok" ELSE "none"

\* _execute_validation_step: a failed evaluation is replaced by a stand-in
_execute_validation_step(resp) ==
    IF "critic" \notin agents THEN "ok"
    ELSE IF resp = "raise" THEN "raise"
    ELSE "ok"

\* _execute_step's return value: the four phases in order, False as soon as
\* one yields nothing or raises
_execute_step(perception, planning, operation, validation) ==
    IF _execute_perception_step(perception) # "ok" THEN FALSE
    ELSE IF _execute_planning_step(planning) # "ok" THEN FALSE
    ELSE IF _execute_operation_step(operation) # "ok" THEN FALSE
    ELSE IF _execute_validation_step(validation) # "ok" THEN FALSE
    ELSE TRUE

\* the record _execute_step appends to execution_history
ExecutionRecord(index, step) ==
    [step_index |-> index,
     step_agent |-> IF step.kind = "dict" THEN step.next_agent ELSE "perception",
     step_action |-> IF step.kind = "dict" THEN step.action ELSE "analyze"]

\* faulty variant: the result of execute_plan is ignored
GoalStatusAlwaysComplete(ok) == "complete"

\* Overseer.run: the goal status for execute_plan's result
GoalStatusFor(ok) == IF ok THEN "complete" ELSE "failed"

----------------------------------------------------------------------------
\* The main thread: main's retry loop around Overseer.run

\* run, first part: set_goal adds the goal and makes it current
SetGoal ==
    /\ pc = "main_loop"
    /\ retry_count < MaxRetries
    /\ goals' = add_goal(goals)
    /\ current_goal' = Len(goals) + 1
    /\ pc' = "create_plan"
    /\ exit_at' = "none"
    /\ UNCHANGED <<plans, agents, current_plan, execution_history, step_index,
                   success, retry_count, dispatched, hist_base>>
    /\ UNCHANGED failsafe_vars
    /\ UNCHANGED agent_vars

\* Overseer.create_plan, the steps of the plan it stores: the planner's
\* steps, or the four fallback steps when the planner fails, returns no
\* steps or is not registered
create_plan_steps(planner_response) ==
    IF "overseer" \in agents
    THEN IF planner_response.success
         THEN _clean_plan_steps(IF planner_response.plan # <<>>
                                THEN planner_response.plan ELSE FallbackPlan)
         ELSE _clean_plan_steps(FallbackPlan)
    ELSE FallbackPlan

\* Overseer.create_plan with any response of the planner
CreatePlan ==
    /\ pc = "create_plan"
    /\ \E planner_response \in PlannerResponses :
          plans' = memory_create_plan(plans, current_goal,
                                      create_plan_steps(planner_response))
    /\ current_plan' = Len(plans) + 1
    /\ pc' = "execute_plan"
    /\ UNCHANGED <<goals, agents, current_goal, execution_history, step_index,
                   success, retry_count, dispatched, exit_at, hist_base>>
    /\ UNCHANGED failsafe_vars
    /\ UNCHANGED agent_vars

\* execute_plan up to the loop: the plan becomes "executing" at step 0
ExecutePlanEnter ==
    /\ pc = "execute_plan"
    /\ plans' = update_plan_step(plans, current_plan, 0, "executing")
    /\ step_index' = 0
    /\ hist_base' = Len(execution_history)
    /\ pc' = "pre_step"
    /\ UNCHANGED <<goals, agents, current_goal, current_plan, execution_history,
                   success, retry_count, dispatched, exit_at>>
    /\ UNCHANGED failsafe_vars
    /\ UNCHANGED agent_vars

\* the failsafe check at the head of each iteration; when it fails
\* execute_plan returns False at once
PreStepCheck ==
    /\ pc = "pre_step"
    /\ step_index < Len(plans[current_plan].steps)
    /\ IF can_proceed
       THEN /\ pc' = "increment"
            /\ UNCHANGED <<success, exit_at>>
       ELSE /\ pc' = "run_return"
            /\ success' = FALSE
            /\ exit_at' = "failsafe"
    /\ UNCHANGED <<goals, plans, agents, current_goal, current_plan,
                   execution_history, step_index, retry_count, dispatched, hist_base>>
    /\ UNCHANGED failsafe_vars
    /\ UNCHANGED agent_vars

\* increment_step, then the call of _execute_step
IncrementStep ==
    /\ pc = "increment"
    /\ step_count' = step_count + 1
    /\ dispatched' = Append(dispatched, <<current_plan, step_index>>)
    /\ pc' = "in_step"
    /\ UNCHANGED <<safety_status, screenshot_count, request_count, run_time,
                   dev_disable_safety, killswitch_file, pause_file>>
    /\ UNCHANGED <<goals, plans, agents, current_goal, current_plan,
                   execution_history, step_index, success, retry_count,
                   exit_at, hist_base>>
    /\ UNCHANGED agent_vars

\* _execute_step returns and execute_plan acts on the result: a failed step
\* marks the plan "failed" and returns False, a successful one was recorded
\* in the history and advances the plan
StepReturn ==
    /\ pc = "in_step"
    /\ \E perception, planning, operation, validation \in Responses :
          LET step == plans[current_plan].steps[step_index + 1]
              step_success == _execute_step(perception, planning, operation, validation)
          IN  IF step_success
              THEN /\ execution_history' =
                          Append(execution_history, ExecutionRecord(step_index, step))
                   /\ plans' = update_plan_step(plans, current_plan, step_index + 1, "")
                   /\ step_index' = step_index + 1
                   /\ pc' = "pre_step"
                   /\ UNCHANGED <<success, exit_at>>
              ELSE /\ plans' = update_plan_step(plans, current_plan, step_index, "failed")
                   /\ success' = FALSE
                   /\ exit_at' = "step_failed"
                   /\ pc' = "run_return"
                   /\ UNCHANGED <<execution_history, step_index>>
    /\ UNCHANGED <<goals, agents, current_goal, current_plan, retry_count,
                   dispatched, hist_base>>
    /\ UNCHANGED failsafe_vars
    /\ UNCHANGED agent_vars

\* the loop is exhausted: the plan is marked complete
PlanComplete ==
    /\ pc = "pre_step"
    /\ step_index = Len(plans[current_plan].steps)
    /\ plans' = update_plan_step(plans, current_plan,
                                 Len(plans[current_plan].steps), "complete")
    /\ success' = TRUE
    /\ exit_at' = "complete"
    /\ pc' = "run_return"
    /\ UNCHANGED <<goals, agents, current_goal, current_plan, execution_history,
                   step_index, retry_count, dispatched, hist_base>>
    /\ UNCHANGED failsafe_vars
    /\ UNCHANGED agent_vars

\* run, last part: the goal status follows execute_plan's result
RunReturn ==
    /\ pc = "run_return"
    /\ goals' = update_goal_status(goals, current_goal, GoalStatusFor(success))
    /\ pc' = "main_check"
    /\ UNCHANGED <<plans, agents, current_goal, current_plan, execution_history,
                   step_index, success, retry_count, dispatched, exit_at, hist_base>>
    /\ UNCHANGED failsafe_vars
    /\ UNCHANGED agent_vars

\* main: stop on success, otherwise count the attempt and retry while
\* attempts are left
MainRetry ==
    /\ pc = "main_check"
    /\ IF success
       THEN /\ pc' = "done"
            /\ UNCHANGED retry_count
       ELSE /\ retry_count' = retry_count + 1
            /\ pc' = IF retry_count + 1 < MaxRetries THEN "main_loop" ELSE "done"
    /\ UNCHANGED <<goals, plans, agents, current_goal, current_plan,
                   execution_history, step_index, success, dispatched, exit_at,
                   hist_base>>
    /\ UNCHANGED failsafe_vars
    /\ UNCHANGED agent_vars

\* SIGINT / SIGTERM: the handler activates the killswitch
SignalHandler == activate_killswitch

----------------------------------------------------------------------------
\* One call of Overseer._execute_step on its own

\* the agents register_agent may have registered: the three of
\* _initialize_agents, none of them, or the three and a CriticAgent
RegisteredAgents == {AllAgents, {}, AllAgents \cup {"critic"}}

PhaseResponses ==
    [perception : Responses, planning : Responses, operation : Responses,
     validation : Responses]

\* _execute_step for a string step: the four phases, the record appended
\* when all of them yielded a result
ExecuteStep ==
    /\ step_pc = "call"
    /\ LET step_success == _execute_step(phase_responses.perception,
                                         phase_responses.planning,
                                         phase_responses.operation,
                                         phase_responses.validation)
       IN  /\ step_returned' = step_success
           /\ execution_history' =
                  IF step_success
                  THEN Append(execution_history, ExecutionRecord(0, StrStep))
                  ELSE execution_history
    /\ step_pc' = "returned"
    /\ UNCHANGED <<phase_responses, agents, current_goal, current_plan>>
    /\ UNCHANGED <<bystander_vars, interpret_vars, extract_vars, process_vars>>

----------------------------------------------------------------------------
\* How an executor response is interpreted

\* the success key of a response dict: missing ("absent"), a bool, a
\* non-empty string ("yes") or None ("null")
SuccessFields == {"absent", "true", "false", "yes", "null"}

\* the status key: missing ("absent"), a string, or a number ("number")
StatusFields ==
    {"absent", "success", "SUCCESS", "Completed", "done", "ok", "failed",
     "number"}

\* response dicts; other tells whether the dict has any further key
ExecResponses == [success : SuccessFields, status : StatusFields, other : BOOLEAN]

\* not operation_result: the dict is empty
IsEmptyDict(r) == r.success = "absent" /\ r.status = "absent" /\ ~r.other

\* str.lower()
LowerStatus(status) ==
    IF status = "SUCCESS" THEN "success"
    ELSE IF status = "Completed" THEN "completed"
    ELSE status

SuccessWords == {"success", "completed", "done", "ok"}

\* OverseerAgent._assess_step_success
_assess_step_success(operation_result) ==
    IF IsEmptyDict(operation_result) THEN FALSE
    ELSE LET status == IF operation_result.status = "absent" THEN ""
                       ELSE operation_result.status
             ok == IF operation_result.success = "absent" THEN "false"
                   ELSE operation_result.success
         IN  IF ok \in {"true", "false"} THEN ok = "true"
             ELSE IF status # "number" THEN LowerStatus(status) \in SuccessWords
             ELSE FALSE

\* response and response.get("success"), the test of
\* _execute_planning_step and _execute_operation_step
truthy_success(r) == ~IsEmptyDict(r) /\ r.success \in {"true", "yes"}

\* _evaluate_progress assesses the operation result
AssessStepSuccess ==
    /\ interpret_pc = "call"
    /\ interpreted' = _assess_step_success(exec_response)
    /\ interpret_pc' = "assessed"
    /\ UNCHANGED exec_response
    /\ UNCHANGED <<bystander_vars, overseer_vars, step_call_vars, extract_vars,
                   process_vars>>

\* the coordinator decides whether the operator's response is a result
OperationStepReturn ==
    /\ interpret_pc = "call"
    /\ interpreted' = truthy_success(exec_response)
    /\ interpret_pc' = "dispatched"
    /\ UNCHANGED exec_response
    /\ UNCHANGED <<bystander_vars, overseer_vars, step_call_vars, extract_vars,
                   process_vars>>

----------------------------------------------------------------------------
\* BaseAgent._extract_text_from_llm_response

\* A text is a sequence of characters; the delimiter and the fence are kept
\* as one element each, which the scanner and the parser treat like any
\* other character that is not a brace, quote, backslash or blank.
Quote == "\""
Backslash == "\\"
Delimiter == "assistantfinal"
\* three backticks
Fence == "fence"

\* json.loads on a text made of these characters: blanks are skipped
\* between tokens
RECURSIVE skip_ws(_, _)
skip_ws(t, i) ==
    IF i <= Len(t) /\ t[i] = " " THEN skip_ws(t, i + 1) ELSE i

\* a string from the character after its opening quote: the index after
\* the closing quote, 0 when the string does not end or has a backslash
\* before anything but a quote or a backslash
RECURSIVE string_end(_, _)
string_end(t, i) ==
    IF i > Len(t) THEN 0
    ELSE IF t[i] = Quote THEN i + 1
    ELSE IF t[i] = Backslash
         THEN IF i + 1 <= Len(t) /\ t[i + 1] \in {Quote, Backslash}
              THEN string_end(t, i + 2)
              ELSE 0
    ELSE string_end(t, i + 1)

\* a number: digits
RECURSIVE number_end(_, _)
number_end(t, i) ==
    IF i <= Len(t) /\ t[i] = "1" THEN number_end(t, i + 1) ELSE i

\* a value at i (a string, a number or an object with at most one
\* member): the index after it, 0 when there is none
RECURSIVE parse_value(_, _)
parse_value(t, i) ==
    IF i > Len(t) THEN 0
    ELSE IF t[i] = Quote THEN string_end(t, i + 1)
    ELSE IF t[i] = "1" THEN number_end(t, i)
    ELSE IF t[i] = "{"
         THEN LET j == skip_ws(t, i + 1)
              IN  IF j > Len(t) THEN 0
                  ELSE IF t[j] = "}" THEN j + 1
                  ELSE IF t[j] # Quote THEN 0
                  ELSE LET k == string_end(t, j + 1)
                           c == skip_ws(t, k)
                       IN  IF k = 0 \/ c > Len(t) THEN 0
                           ELSE IF t[c] # ":" THEN 0
                           ELSE LET v == parse_value(t, skip_ws(t, c + 1))
                                    e == skip_ws(t, v)
                                IN  IF v = 0 \/ e > Len(t) THEN 0
                                    ELSE IF t[e] = "}" THEN e + 1
                                    ELSE 0
    ELSE 0

\* faulty variant: every text parses
json_loads_anything(t) == TRUE

\* json.loads(t) does not raise
json_loads(t) ==
    LET e == parse_value(t, skip_ws(t, 1))
    IN  e # 0 /\ skip_ws(t, e) = Len(t) + 1

\* faulty variant: quotes are characters like any other
is_quote_never(ch) == FALSE

\* the test for a double quote
is_quote(ch) == ch = Quote

\* the loop of _scan_last_valid_json_obj from character i on
RECURSIVE scan(_, _, _, _, _, _, _)
scan(text, i, in_str, esc, brace, start, last_valid) ==
    IF i > Len(text) THEN last_valid
    ELSE LET ch == text[i]
         IN  IF esc
             THEN scan(text, i + 1, in_str, FALSE, brace, start, last_valid)
             ELSE IF ch = Backslash
             THEN scan(text, i + 1, in_str, in_str, brace, start, last_valid)
             ELSE IF is_quote(ch)
             THEN scan(text, i + 1, ~in_str, esc, brace, start, last_valid)
             ELSE IF in_str
             THEN scan(text, i + 1, in_str, esc, brace, start, last_valid)
             ELSE IF ch = "{"
             THEN scan(text, i + 1, in_str, esc, brace + 1,
                       IF brace = 0 THEN i ELSE start, last_valid)
             ELSE IF ch = "}" /\ brace > 0
             THEN LET candidate == SubSeq(text, start, i)
                  IN  scan(text, i + 1, in_str, esc, brace - 1, start,
                           IF brace - 1 = 0 /\ start # 0 /\ json_loads(candidate)
                           THEN candidate ELSE last_valid)
             ELSE scan(text, i + 1, in_str, esc, brace, start, last_valid)

\* _scan_last_valid_json_obj; <<>> is None
_scan_last_valid_json_obj(text) == scan(text, 1, FALSE, FALSE, 0, 0, <<>>)

\* str.lstrip()
RECURSIVE lstrip(_)
lstrip(text) ==
    IF text # <<>> /\ Head(text) = " " THEN lstrip(Tail(text)) ELSE text

RECURSIVE rstrip(_)
rstrip(text) ==
    IF text # <<>> /\ text[Len(text)] = " "
    THEN rstrip(SubSeq(text, 1, Len(text) - 1))
    ELSE text

\* faulty variant: nothing is trimmed
strip_nothing(text) == text

\* str.strip()
strip(text) == rstrip(lstrip(text))

\* faulty variant: the text is searched from its first character
whole_text(text) == text

\* response.split("assistantfinal", 1)[1].lstrip(): what follows the first
\* delimiter
after_delimiter(text) ==
    LET first == CHOOSE i \in 1..Len(text) :
                     /\ text[i] = Delimiter
                     /\ \A j \in 1..(i - 1) : text[j] # Delimiter
    IN  lstrip(SubSeq(text, first + 1, Len(text)))

\* re.findall of the fenced blocks, the last of them: fences pair up from
\* the left and a block is what stands between the two of a pair, trimmed
FencePositions(text) ==
    SelectSeq([i \in 1..Len(text) |-> i], LAMBDA i : text[i] = Fence)

has_code_blocks(text) == Len(FencePositions(text)) >= 2

last_code_block(text) ==
    LET fences == FencePositions(text)
        closing == Len(fences) - (Len(fences) % 2)
    IN  strip(SubSeq(text, fences[closing - 1] + 1, fences[closing] - 1))

\* the loop over search_order: the first text in which the scanner finds
\* an object, <<>> when there is none
RECURSIVE first_found(_)
first_found(search_order) ==
    IF search_order = <<>> THEN <<>>
    ELSE LET found == _scan_last_valid_json_obj(Head(search_order))
         IN  IF found # <<>> THEN found ELSE first_found(Tail(search_order))

\* _extract_text_from_llm_response
_extract_text_from_llm_response(text) ==
    LET has_delimiter == \E i \in 1..Len(text) : text[i] = Delimiter
        segment == IF has_delimiter THEN after_delimiter(text) ELSE text
        search_order ==
            (IF has_code_blocks(segment) THEN <<last_code_block(segment)>> ELSE <<>>)
            \o <<segment>>
            \o (IF has_delimiter THEN <<text>> ELSE <<>>)
        found == first_found(search_order)
    IN  IF found # <<>> THEN found ELSE strip(text)

\* longest response, in parts
MaxParts == 4

\* what an LLM's text is made of: objects, an object with braces and an
\* escaped quote inside a string, a nested object, a balanced span that is
\* no JSON, prose, a quoted brace in prose, stray quotes and braces,
\* blanks, the delimiter and fences
BraceObject ==
    <<"{", Quote, "a", Quote, ":", Quote, "}", "{", Backslash, Quote, Quote, "}">>

ObjectParts ==
    {<<"{", "}">>,
     <<"{", Quote, "a", Quote, ":", "1", "}">>,
     BraceObject,
     <<"{", Quote, "a", Quote, ":", " ", "{", "}", "}">>}

InvalidSpan == <<"{", "a", "}">>

QuotedBrace == <<Quote, "{", Quote>>

PlainParts == {InvalidSpan, <<"a">>, <<" ">>, QuotedBrace}

StrayParts == {<<Quote>>, <<"{">>, <<"}">>}

ResponseParts ==
    ObjectParts \cup PlainParts \cup StrayParts \cup {<<Delimiter>>, <<Fence>>}

LLMTexts == UNION {[1..n -> ResponseParts] : n \in 0..MaxParts}

RECURSIVE Flatten(_)
Flatten(parts) ==
    IF parts = <<>> THEN <<>> ELSE Head(parts) \o Flatten(Tail(parts))

\* process hands the LLM's text to the extraction
ExtractText ==
    /\ extract_pc = "call"
    /\ extracted' = _extract_text_from_llm_response(llm_response)
    /\ extract_pc' = "returned"
    /\ UNCHANGED <<response_parts, llm_response>>
    /\ UNCHANGED <<bystander_vars, overseer_vars, step_call_vars, interpret_vars,
                   process_vars>>

----------------------------------------------------------------------------
\* GPTOSS20BAgent.process, from the extracted text on

\* the agent whose process is followed
agent_name == "operator"

\* A response dict, by the keys that matter: role, action and success hold
\* "absent" when the key is missing, extra stands for any other key, error
\* for the message of an error response.
ResponseDict(role, action, ok, extra, error) ==
    [role |-> role, action |-> action, success |-> ok, extra |-> extra,
     error |-> error]

\* the objects an LLM may answer with
ParsedObjects ==
    {ResponseDict(role, action, ok, extra, "absent") :
        role \in {"absent", "critic"}, action \in {"absent", "click"},
        ok \in {"absent", "true", "false"}, extra \in {"absent", "x"}}

NoObject == ResponseDict("absent", "absent", "absent", "absent", "absent")

\* None
None == ResponseDict("None", "None", "None", "None", "None")

\* What the extraction handed over: the text of an object; text that
\* parses as something else (a list, a string); text that does not parse
\* and in which _attempt_json_fix finds an object, finds a list, or finds
\* nothing.
ExtractedTexts ==
    {[kind |-> "object", obj |-> o] : o \in ParsedObjects}
    \cup {[kind |-> "not_object", obj |-> NoObject]}
    \cup {[kind |-> "fixable", obj |-> o] : o \in ParsedObjects}
    \cup {[kind |-> "fixable_not_object", obj |-> NoObject]}
    \cup {[kind |-> "unparseable", obj |-> NoObject]}

\* the prompt dicts: with an action key or without
InputData == {[action |-> "navigate"], [action |-> "absent"]}

\* _create_error_response
_create_error_response(error_message, action) ==
    ResponseDict(agent_name, action, "false", "absent", error_message)

\* dict.setdefault
setdefault(d, key, value) ==
    IF d[key] = "absent" THEN [d EXCEPT ![key] = value] ELSE d

\* faulty variant: the response goes to validation as it was parsed
merge_nothing(d, action_default) == d

\* the three setdefault calls of process
merge_defaults(d, action_default) ==
    setdefault(setdefault(setdefault(d, "role", agent_name),
                          "success", "false"),
               "action", action_default)

\* _validate_json_response for a dict
_validate_json_response(r) ==
    IF r.role = "absent" THEN None
    ELSE IF r.action = "absent" THEN None
    ELSE r

\* the text gives process a dict to complete: it parses as an object, or
\* _attempt_json_fix found an object in it that is not empty
GivesObject(text) ==
    \/ text.kind = "object"
    \/ text.kind = "fixable" /\ text.obj # NoObject

\* process, from the extracted text to the call of
\* _validate_json_response: the text is parsed (or repaired) and the
\* defaults are merged; text that is no object or cannot be repaired ends
\* the call with an error response
ParseAndMergeDefaults ==
    /\ process_pc = "extracted"
    /\ LET action_default == IF input_data.action = "absent" THEN "unknown"
                             ELSE input_data.action
       IN  IF GivesObject(json_response)
           THEN /\ parsed_response' = merge_defaults(json_response.obj, action_default)
                /\ process_pc' = "validate"
                /\ UNCHANGED process_out
           ELSE /\ process_out' =
                      IF json_response.kind \in {"unparseable", "fixable"}
                      THEN _create_error_response("Invalid JSON response from LLM", "error")
                      ELSE _create_error_response("Processing error", "error")
                /\ process_pc' = "returned"
                /\ UNCHANGED parsed_response
    /\ UNCHANGED <<input_data, json_response>>
    /\ UNCHANGED <<bystander_vars, overseer_vars, step_call_vars, interpret_vars,
                   extract_vars>>

\* process, the rest: validation, then the validated response or an error
\* response is returned
ValidateAndReturn ==
    /\ process_pc = "validate"
    /\ LET validated_response == _validate_json_response(parsed_response)
       IN  process_out' =
               IF validated_response = None
               THEN _create_error_response("Response validation failed", "error")
               ELSE validated_response
    /\ process_pc' = "returned"
    /\ UNCHANGED <<input_data, json_response, parsed_response>>
    /\ UNCHANGED <<bystander_vars, overseer_vars, step_call_vars, interpret_vars,
                   extract_vars>>

----------------------------------------------------------------------------
\* OverseerAgent._create_plan: the approval loop

max_iterations == 3
\* approval_threshold = 0.8, in tenths
approval_threshold == 8
\* the limit of the consecutive-failure check
failure_limit == 3
\* calls of the planner within one call of _create_plan the model follows
MaxDrafts == 7

\* drafts the planner returns to the loop: none, one operator step that
\* carries coordinates, two steps with empty descriptions
LoopDrafts ==
    {<<>>,
     <<RawStepWith("dict", FALSE, "operator", "", "click", "text", TRUE, 0)>>,
     <<RawStepWith("dict", FALSE, "operator", "", "type", "", FALSE, 0),
       RawStepWith("dict", FALSE, "", "", "", "", FALSE, 0)>>}

\* the planner's response after _call_llm_with_planning_tokens and
\* _canonicalize_overseer_response: a response with steps has success True
LLMResponses ==
    {r \in [success : BOOLEAN, plan : LoopDrafts] : r.plan # <<>> => r.success}

\* the keys of the response dict the loop and its caller read; a key that
\* is not set reads as False
Response(ok, plan, plan_approved, plan_improved) ==
    [success |-> ok, plan |-> plan, plan_approved |-> plan_approved,
     plan_improved |-> plan_improved]

NoResponse == Response(FALSE, <<>>, FALSE, FALSE)

\* one iteration of the while loop, from the draft request to the
\* consecutive-failure check
Iterate ==
    /\ agent_pc = "loop"
    /\ iteration < max_iterations
    /\ drafts_requested < MaxDrafts
    /\ \E llm \in LLMResponses, answer \in CriticVerdicts,
          improvement \in Improvements :
          LET drafted == llm.plan # <<>>
              plan_steps == _enforce_capabilities_and_preconditions(
                                _clean_plan_steps(llm.plan))
              critic_validation ==
                  _validate_plan_with_critic(critic_attached, plan_steps, answer)
              scored == drafted /\ critic_validation.present
              approved == scored
                          /\ critic_validation.overall_score >= approval_threshold
              improved == IF scored /\ ~approved /\ critic_validation.issues_found
                          THEN _improve_plan_with_critic(critic_attached,
                                                         plan_steps, improvement)
                          ELSE <<>>
              failures == IF ~drafted THEN consecutive_failures + 1
                          ELSE IF approved THEN 0
                          ELSE IF improved # <<>> THEN consecutive_failures
                          ELSE consecutive_failures + 1
              \* an empty draft continues and an approval breaks before the
              \* consecutive-failure check
              limit_hit == drafted /\ ~approved /\ failures >= failure_limit
              restart == limit_hit /\ ~debug_mode
          IN  /\ response' =
                    IF ~drafted
                    THEN Response(llm.success, llm.plan, FALSE, FALSE)
                    ELSE Response(llm.success,
                                  IF improved # <<>> THEN improved ELSE plan_steps,
                                  approved, improved # <<>>)
              /\ iteration' = IF restart THEN 0 ELSE iteration + 1
              /\ consecutive_failures' = IF restart THEN 0 ELSE failures
              /\ agent_pc' = IF approved THEN "after_loop"
                             ELSE IF limit_hit /\ debug_mode THEN "exited"
                             ELSE "loop"
              /\ approved_at' = IF approved THEN iteration + 1 ELSE approved_at
              /\ nonempty_seen' = (nonempty_seen \/ drafted)
              /\ scored_plan' = IF scored THEN plan_steps ELSE <<>>
              /\ improved_plan' = improved
              /\ IF scored /\ critic_validation.overall_score > best_score
                 THEN /\ best_score' = critic_validation.overall_score
                      /\ best_plan' = IF improved # <<>> THEN improved
                                      ELSE plan_steps
                 ELSE UNCHANGED <<best_score, best_plan>>
    /\ drafts_requested' = drafts_requested + 1
    /\ UNCHANGED <<debug_mode, critic_attached, handed, pipeline_vars, call_vars>>
    /\ UNCHANGED <<failsafe_vars, memory_vars, overseer_vars, main_vars,
                   observer_vars>>

\* after the loop: a call that used up its iterations is marked unapproved,
\* any other is marked successful; the response is returned
FinishCreatePlan ==
    /\ \/ agent_pc = "after_loop"
       \/ agent_pc = "loop" /\ ~(iteration < max_iterations)
    /\ response' = IF iteration >= max_iterations
                   THEN [response EXCEPT !.plan_approved = FALSE]
                   ELSE [response EXCEPT !.success = TRUE]
    /\ agent_pc' = "returned"
    /\ UNCHANGED <<iteration, consecutive_failures, debug_mode, critic_attached,
                   approval_observer_vars, pipeline_vars, call_vars>>
    /\ UNCHANGED <<failsafe_vars, memory_vars, overseer_vars, main_vars,
                   observer_vars>>

\* Overseer.create_plan with the response _create_plan returned: the plan
\* it stores is the one run hands to execute_plan
CreatePlanFromAgent ==
    /\ pc = "create_plan"
    /\ agent_pc = "returned"
    /\ plans' = memory_create_plan(plans, current_goal, create_plan_steps(response))
    /\ current_plan' = Len(plans) + 1
    /\ pc' = "execute_plan"
    /\ agent_pc' = "idle"
    /\ handed' = IF ~(response.success /\ response.plan # <<>>) THEN "fallback"
                 ELSE IF response.plan_approved THEN "approved"
                 ELSE "unapproved"
    /\ UNCHANGED <<goals, agents, current_goal, execution_history, step_index,
                   success, retry_count, dispatched, exit_at, hist_base>>
    /\ UNCHANGED <<iteration, consecutive_failures, response, debug_mode,
                   critic_attached, drafts_requested, approved_at, best_score,
                   best_plan, nonempty_seen, improved_plan, scored_plan,
                   pipeline_vars, call_vars>>
    /\ UNCHANGED failsafe_vars

----------------------------------------------------------------------------
\* The drafting pipeline on its own

\* longest list of steps passed to the pipeline
MaxDraftLen == 2

\* steps a draft is made of
PipelineSteps ==
    {RawStep("str", FALSE, "", "", ""),
     RawStep("str", TRUE, "", "", ""),
     RawStep("other", FALSE, "", "", ""),
     RawStepWith("dict", FALSE, "operator", "", "click", "text", TRUE, 0),
     RawStepWith("dict", FALSE, "operator", "", "click", "text", FALSE, 5),
     RawStepWith("dict", FALSE, "operator", "", "type", "text", FALSE, 0),
     RawStepWith("dict", FALSE, "operator", "", "press", "absent", TRUE, 0),
     RawStepWith("dict", FALSE, "", "Operator", "scroll", "", TRUE, 0),
     RawStepWith("dict", FALSE, "perception", "", "click", "text", FALSE, 0),
     RawStepWith("dict", FALSE, "perception", "", "identify", "text", FALSE, 0),
     RawStepWith("dict", FALSE, "overseer", "", "", "absent", FALSE, 3),
     RawStepWith("dict", FALSE, "overseer", "", "navigate", "text", FALSE, 0),
     RawStepWith("dict", FALSE, "critic", "", "evaluate", "text", FALSE, 0),
     RawStepWith("dict", FALSE, "", "", "", "absent", FALSE, 0)}

PipelineInputs == UNION {[1..n -> PipelineSteps] : n \in 0..MaxDraftLen}

\* _clean_plan_steps applied to the draft
CleanPlanSteps ==
    /\ pipe_stage = "draft"
    /\ pipe_out' = _clean_plan_steps(pipe_in)
    /\ pipe_cleaned' = _clean_plan_steps(pipe_in)
    /\ pipe_stage' = "cleaned"
    /\ UNCHANGED pipe_in
    /\ UNCHANGED <<approval_vars, approval_observer_vars, call_vars>>
    /\ UNCHANGED <<failsafe_vars, memory_vars, overseer_vars, main_vars,
                   observer_vars>>

\* _enforce_capabilities_and_preconditions applied to the cleaned steps, as
\* _create_plan does, or to a list of dicts as it came
EnforceCapabilities ==
    /\ \/ /\ pipe_stage = "cleaned"
          /\ pipe_out' = _enforce_capabilities_and_preconditions(pipe_out)
          /\ pipe_stage' = "enforced"
       \/ /\ pipe_stage = "draft"
          /\ \A i \in 1..Len(pipe_in) : pipe_in[i].kind = "dict"
          /\ pipe_out' = _enforce_capabilities_and_preconditions(pipe_in)
          /\ pipe_stage' = "enforced_only"
    /\ UNCHANGED <<pipe_in, pipe_cleaned>>
    /\ UNCHANGED <<approval_vars, approval_observer_vars, call_vars>>
    /\ UNCHANGED <<failsafe_vars, memory_vars, overseer_vars, main_vars,
                   observer_vars>>

----------------------------------------------------------------------------
\* execute_plan beside the watchdog, with step_count += 1 taken apart

\* increment_step, first half: step_count is read
IncrementLoad ==
    /\ pc = "increment"
    /\ loaded_step_count' = step_count
    /\ pc' = "increment_store"
    /\ UNCHANGED <<wd_pc, caller_pc, no_killswitch, kill_lifted, pause_held>>
    /\ UNCHANGED <<step_index, success, retry_count>>
    /\ UNCHANGED <<failsafe_vars, memory_vars, overseer_vars, observer_vars>>
    /\ UNCHANGED <<approval_vars, approval_observer_vars, pipeline_vars,
                   step_call_vars, interpret_vars, extract_vars, process_vars>>

\* faulty variant: the value read is written back as it is
IncrementStoreLost ==
    /\ pc = "increment_store"
    /\ step_count' = loaded_step_count
    /\ loaded_step_count' = 0
    /\ dispatched' = Append(dispatched, <<current_plan, step_index>>)
    /\ pc' = "in_step"
    /\ UNCHANGED <<wd_pc, caller_pc, no_killswitch, kill_lifted, pause_held>>
    /\ UNCHANGED <<step_index, success, retry_count, exit_at, hist_base>>
    /\ UNCHANGED <<safety_status, screenshot_count, request_count, run_time,
                   dev_disable_safety, killswitch_file, pause_file>>
    /\ UNCHANGED <<memory_vars, overseer_vars>>
    /\ UNCHANGED <<approval_vars, approval_observer_vars, pipeline_vars,
                   step_call_vars, interpret_vars, extract_vars, process_vars>>

\* increment_step, second half: the value read plus one is written; then
\* _execute_step is called
IncrementStore ==
    /\ pc = "increment_store"
    /\ step_count' = loaded_step_count + 1
    /\ loaded_step_count' = 0
    /\ dispatched' = Append(dispatched, <<current_plan, step_index>>)
    /\ pc' = "in_step"
    /\ UNCHANGED <<wd_pc, caller_pc, no_killswitch, kill_lifted, pause_held>>
    /\ UNCHANGED <<step_index, success, retry_count, exit_at, hist_base>>
    /\ UNCHANGED <<safety_status, screenshot_count, request_count, run_time,
                   dev_disable_safety, killswitch_file, pause_file>>
    /\ UNCHANGED <<memory_vars, overseer_vars>>
    /\ UNCHANGED <<approval_vars, approval_observer_vars, pipeline_vars,
                   step_call_vars, interpret_vars, extract_vars, process_vars>>

----------------------------------------------------------------------------
\* The watchdog thread beside a thread calling the FailsafeSystem, every
\* call followed statement by statement

\* _check_control_files: killswitch_file.exists()
WatchdogKillExists ==
    /\ wd_pc = "check_kill"
    /\ wd_pc' = IF killswitch_file THEN "kill_found" ELSE "check_pause"
    /\ UNCHANGED <<loaded_step_count, caller_pc, no_killswitch, kill_lifted,
                   pause_held>>
    /\ UNCHANGED <<failsafe_vars, offstage_vars>>

\* _check_control_files: the file was found, the flag is set
WatchdogKillSet ==
    /\ wd_pc = "kill_found"
    /\ safety_status' = [safety_status EXCEPT !.killswitch_active = TRUE]
    /\ wd_pc' = "check_pause"
    /\ UNCHANGED <<loaded_step_count, caller_pc, no_killswitch, kill_lifted,
                   pause_held>>
    /\ UNCHANGED <<step_count, screenshot_count, request_count, run_time,
                   dev_disable_safety, killswitch_file, pause_file>>
    /\ UNCHANGED offstage_vars

\* _check_control_files: pause_file.exists()
WatchdogPauseExists ==
    /\ wd_pc = "check_pause"
    /\ wd_pc' = IF pause_file THEN "pause_found" ELSE "pause_gone"
    /\ UNCHANGED <<loaded_step_count, caller_pc, no_killswitch, kill_lifted,
                   pause_held>>
    /\ UNCHANGED <<failsafe_vars, offstage_vars>>

\* _check_control_files: the file was found, the flag is set
WatchdogPauseSet ==
    /\ wd_pc = "pause_found"
    /\ safety_status' = [safety_status EXCEPT !.pause_active = TRUE]
    /\ wd_pc' = "check_budgets"
    /\ UNCHANGED <<loaded_step_count, caller_pc, no_killswitch, kill_lifted,
                   pause_held>>
    /\ UNCHANGED <<step_count, screenshot_count, request_count, run_time,
                   dev_disable_safety, killswitch_file, pause_file>>
    /\ UNCHANGED offstage_vars

\* _check_control_files: the file was not found, the flag is cleared
WatchdogPauseClear ==
    /\ wd_pc = "pause_gone"
    /\ safety_status' = [safety_status EXCEPT !.pause_active = FALSE]
    /\ wd_pc' = "check_budgets"
    /\ UNCHANGED <<loaded_step_count, caller_pc, no_killswitch, kill_lifted,
                   pause_held>>
    /\ UNCHANGED <<step_count, screenshot_count, request_count, run_time,
                   dev_disable_safety, killswitch_file, pause_file>>
    /\ UNCHANGED offstage_vars

\* _check_budgets, then the heartbeat and the sleep before the next pass
WatchdogBudgets ==
    /\ wd_pc = "check_budgets"
    /\ safety_status' = _check_budgets(safety_status)
    /\ wd_pc' = "check_kill"
    /\ UNCHANGED <<loaded_step_count, caller_pc, no_killswitch, kill_lifted,
                   pause_held>>
    /\ UNCHANGED <<step_count, screenshot_count, request_count, run_time,
                   dev_disable_safety, killswitch_file, pause_file>>
    /\ UNCHANGED offstage_vars

\* main after Overseer() has built the FailsafeSystem: with --no-killswitch
\* the kill file is removed if it exists
MainNoKillswitch ==
    /\ caller_pc = "startup"
    /\ IF no_killswitch /\ killswitch_file
       THEN /\ killswitch_file' = FALSE
            /\ kill_lifted' = "no_killswitch"
       ELSE UNCHANGED <<killswitch_file, kill_lifted>>
    /\ caller_pc' = "idle"
    /\ UNCHANGED <<loaded_step_count, wd_pc, no_killswitch, pause_held>>
    /\ UNCHANGED <<safety_status, step_count, screenshot_count, request_count,
                   run_time, dev_disable_safety, pause_file>>
    /\ UNCHANGED offstage_vars

\* activate_killswitch: the flag is set
ActivateSet ==
    /\ caller_pc = "idle"
    /\ safety_status' = [safety_status EXCEPT !.killswitch_active = TRUE]
    /\ kill_lifted' = "nothing"
    /\ caller_pc' = "activate_touch"
    /\ UNCHANGED <<loaded_step_count, wd_pc, no_killswitch, pause_held>>
    /\ UNCHANGED <<step_count, screenshot_count, request_count, run_time,
                   dev_disable_safety, killswitch_file, pause_file>>
    /\ UNCHANGED offstage_vars

\* activate_killswitch: killswitch_file.touch()
ActivateTouch ==
    /\ caller_pc = "activate_touch"
    /\ killswitch_file' = TRUE
    /\ caller_pc' = "idle"
    /\ UNCHANGED <<loaded_step_count, wd_pc, no_killswitch, kill_lifted,
                   pause_held>>
    /\ UNCHANGED <<safety_status, step_count, screenshot_count, request_count,
                   run_time, dev_disable_safety, pause_file>>
    /\ UNCHANGED offstage_vars

\* deactivate_killswitch: the flag is cleared
DeactivateClear ==
    /\ caller_pc = "idle"
    /\ safety_status' = [safety_status EXCEPT !.killswitch_active = FALSE]
    /\ kill_lifted' = "nothing"
    /\ caller_pc' = "deactivate_unlink"
    /\ UNCHANGED <<loaded_step_count, wd_pc, no_killswitch, pause_held>>
    /\ UNCHANGED <<step_count, screenshot_count, request_count, run_time,
                   dev_disable_safety, killswitch_file, pause_file>>
    /\ UNCHANGED offstage_vars

\* deactivate_killswitch: the file is removed if it exists; the call returns
DeactivateUnlink ==
    /\ caller_pc = "deactivate_unlink"
    /\ killswitch_file' = FALSE
    /\ kill_lifted' = "deactivate"
    /\ caller_pc' = "idle"
    /\ UNCHANGED <<loaded_step_count, wd_pc, no_killswitch, pause_held>>
    /\ UNCHANGED <<safety_status, step_count, screenshot_count, request_count,
                   run_time, dev_disable_safety, pause_file>>
    /\ UNCHANGED offstage_vars

\* pause_system: the flag is set
PauseSet ==
    /\ caller_pc = "idle"
    /\ safety_status' = [safety_status EXCEPT !.pause_active = TRUE]
    /\ pause_held' = FALSE
    /\ caller_pc' = "pause_touch"
    /\ UNCHANGED <<loaded_step_count, wd_pc, no_killswitch, kill_lifted>>
    /\ UNCHANGED <<step_count, screenshot_count, request_count, run_time,
                   dev_disable_safety, killswitch_file, pause_file>>
    /\ UNCHANGED offstage_vars

\* pause_system: pause_file.touch(); the call returns
PauseTouch ==
    /\ caller_pc = "pause_touch"
    /\ pause_file' = TRUE
    /\ pause_held' = TRUE
    /\ caller_pc' = "idle"
    /\ UNCHANGED <<loaded_step_count, wd_pc, no_killswitch, kill_lifted>>
    /\ UNCHANGED <<safety_status, step_count, screenshot_count, request_count,
                   run_time, dev_disable_safety, killswitch_file>>
    /\ UNCHANGED offstage_vars

\* resume_system: the flag is cleared
ResumeClear ==
    /\ caller_pc = "idle"
    /\ safety_status' = [safety_status EXCEPT !.pause_active = FALSE]
    /\ pause_held' = FALSE
    /\ caller_pc' = "resume_unlink"
    /\ UNCHANGED <<loaded_step_count, wd_pc, no_killswitch, kill_lifted>>
    /\ UNCHANGED <<step_count, screenshot_count, request_count, run_time,
                   dev_disable_safety, killswitch_file, pause_file>>
    /\ UNCHANGED offstage_vars

\* resume_system: the file is removed if it exists
ResumeUnlink ==
    /\ caller_pc = "resume_unlink"
    /\ pause_file' = FALSE
    /\ caller_pc' = "idle"
    /\ UNCHANGED <<loaded_step_count, wd_pc, no_killswitch, kill_lifted,
                   pause_held>>
    /\ UNCHANGED <<safety_status, step_count, screenshot_count, request_count,
                   run_time, dev_disable_safety, killswitch_file>>
    /\ UNCHANGED offstage_vars

----------------------------------------------------------------------------
\* Specifications

\* the OverseerAgent before a call of _create_plan, and no pipeline call
InitAgent ==
    /\ iteration = 0
    /\ consecutive_failures = 0
    /\ response = NoResponse
    /\ drafts_requested = 0
    /\ approved_at = 0
    /\ best_score = -1
    /\ best_plan = <<>>
    /\ nonempty_seen = FALSE
    /\ improved_plan = <<>>
    /\ scored_plan = <<>>
    /\ handed = "none"
    /\ pipe_out = <<>>
    /\ pipe_cleaned = <<>>

NoStepCall ==
    /\ phase_responses = <<>>
    /\ step_pc = "idle"
    /\ step_returned = FALSE

NoInterpretation ==
    /\ exec_response = <<>>
    /\ interpret_pc = "idle"
    /\ interpreted = FALSE

NoExtraction ==
    /\ response_parts = <<>>
    /\ llm_response = <<>>
    /\ extract_pc = "idle"
    /\ extracted = <<>>

NoProcessCall ==
    /\ input_data = <<>>
    /\ json_response = <<>>
    /\ parsed_response = <<>>
    /\ process_pc = "idle"
    /\ process_out = <<>>

\* the threads are not followed statement by statement: increment_step and
\* a watchdog pass are taken whole
ThreadsWhole ==
    /\ loaded_step_count = 0
    /\ wd_pc = "whole"
    /\ caller_pc = "idle"
    /\ no_killswitch = FALSE
    /\ kill_lifted = "nothing"
    /\ pause_held = FALSE

\* no call is followed on its own
InitCalls ==
    /\ NoStepCall
    /\ NoInterpretation
    /\ NoExtraction
    /\ NoProcessCall
    /\ ThreadsWhole

\* The state after main has built the Overseer: Memory and history empty,
\* the agents registered together or, when their construction failed, not
\* at all; the control files are whatever an earlier process left behind.
Init ==
    /\ safety_status = InitSafetyStatus
    /\ step_count = 0
    /\ screenshot_count = 0
    /\ request_count = 0
    /\ run_time = 0
    /\ dev_disable_safety \in BOOLEAN
    /\ killswitch_file \in BOOLEAN
    /\ pause_file \in BOOLEAN
    /\ goals = <<>>
    /\ plans = <<>>
    /\ agents \in {AllAgents, {}}
    /\ current_goal = 0
    /\ current_plan = 0
    /\ execution_history = <<>>
    /\ pc = "main_loop"
    /\ step_index = 0
    /\ success = FALSE
    /\ retry_count = 0
    /\ dispatched = <<>>
    /\ exit_at = "none"
    /\ hist_base = 0
    /\ InitAgent
    /\ agent_pc = "idle"
    /\ debug_mode = FALSE
    /\ critic_attached = FALSE
    /\ pipe_in = <<>>
    /\ pipe_stage = "none"
    /\ InitCalls

Running == pc # "done"

\* the program: the main thread, the watchdog thread and the world around
\* them (clock, operator, signals), until the process exits
Next ==
    \/ SetGoal
    \/ CreatePlan
    \/ ExecutePlanEnter
    \/ PreStepCheck
    \/ IncrementStep
    \/ StepReturn
    \/ PlanComplete
    \/ RunReturn
    \/ MainRetry
    \/ (Running /\ WatchdogTick)
    \/ (Running /\ ClockTick)
    \/ (Running /\ SignalHandler)
    \/ (Running /\ ControlFileKill)
    \/ (Running /\ ControlFilePause)

Spec == Init /\ [][Next]_vars

\* the FailsafeSystem under any sequence of calls of its methods, with the
\* watchdog running
NextFailsafe ==
    \/ WatchdogTick
    \/ ClockTick
    \/ activate_killswitch
    \/ deactivate_killswitch
    \/ pause_system
    \/ resume_system
    \/ ControlFileKill
    \/ ControlFilePause
    \/ increment_step
    \/ increment_screenshot
    \/ increment_request
    \/ open_circuit_breaker
    \/ close_circuit_breaker
    \/ record_action

InitFailsafe == Init /\ agents = AllAgents

SpecFailsafe == InitFailsafe /\ [][NextFailsafe]_vars

\* the state of the coordinator's side of the model at rest: nobody
\* changes it while a call of the OverseerAgent is followed on its own
InitQuiet ==
    /\ safety_status = InitSafetyStatus
    /\ step_count = 0
    /\ screenshot_count = 0
    /\ request_count = 0
    /\ run_time = 0
    /\ dev_disable_safety = FALSE
    /\ killswitch_file = FALSE
    /\ pause_file = FALSE
    /\ current_plan = 0
    /\ plans = <<>>
    /\ execution_history = <<>>
    /\ step_index = 0
    /\ success = FALSE
    /\ retry_count = 0
    /\ dispatched = <<>>
    /\ exit_at = "none"
    /\ hist_base = 0

\* the same with the three agents registered
InitRest ==
    /\ InitQuiet
    /\ agents = AllAgents

\* Overseer.create_plan has called the OverseerAgent for the goal just set:
\* _create_plan starts, in debug mode or not, with or without a critic
InitApproval ==
    /\ InitRest
    /\ InitAgent
    /\ goals = add_goal(<<>>)
    /\ current_goal = 1
    /\ pc = "create_plan"
    /\ agent_pc = "loop"
    /\ debug_mode \in BOOLEAN
    /\ critic_attached \in BOOLEAN
    /\ pipe_in = <<>>
    /\ pipe_stage = "none"
    /\ InitCalls

NextApproval ==
    \/ Iterate
    \/ FinishCreatePlan
    \/ CreatePlanFromAgent

SpecApproval == InitApproval /\ [][NextApproval]_vars

\* a draft is about to go through the pipeline
InitPipeline ==
    /\ InitRest
    /\ InitAgent
    /\ goals = <<>>
    /\ current_goal = 0
    /\ pc = "main_loop"
    /\ agent_pc = "idle"
    /\ debug_mode = FALSE
    /\ critic_attached = FALSE
    /\ pipe_in \in PipelineInputs
    /\ pipe_stage = "draft"
    /\ InitCalls

NextPipeline ==
    \/ CleanPlanSteps
    \/ EnforceCapabilities

SpecPipeline == InitPipeline /\ [][NextPipeline]_vars

\* the OverseerAgent and the goal at rest while a single call is followed
InitStandalone ==
    /\ InitAgent
    /\ ThreadsWhole
    /\ goals = <<>>
    /\ current_goal = 0
    /\ pc = "main_loop"
    /\ agent_pc = "idle"
    /\ debug_mode = FALSE
    /\ critic_attached = FALSE
    /\ pipe_in = <<>>
    /\ pipe_stage = "none"

\* execute_plan is about to call _execute_step; each agent called will
\* succeed, fail or raise
InitStep ==
    /\ InitQuiet
    /\ InitStandalone
    /\ agents \in RegisteredAgents
    /\ phase_responses \in PhaseResponses
    /\ step_pc = "call"
    /\ step_returned = FALSE
    /\ NoInterpretation
    /\ NoExtraction
    /\ NoProcessCall

NextStep ==
    \/ ExecuteStep

SpecStep == InitStep /\ [][NextStep]_vars

\* an executor has answered and the answer is about to be interpreted
InitInterpret ==
    /\ InitRest
    /\ InitStandalone
    /\ exec_response \in ExecResponses
    /\ interpret_pc = "call"
    /\ interpreted = FALSE
    /\ NoStepCall
    /\ NoExtraction
    /\ NoProcessCall

NextInterpret ==
    \/ AssessStepSuccess
    \/ OperationStepReturn

SpecInterpret == InitInterpret /\ [][NextInterpret]_vars

\* the LLM has answered with some text, not yet looked at
InitExtract ==
    /\ InitRest
    /\ InitStandalone
    /\ response_parts \in LLMTexts
    /\ llm_response = Flatten(response_parts)
    /\ extract_pc = "call"
    /\ extracted = <<>>
    /\ NoStepCall
    /\ NoInterpretation
    /\ NoProcessCall

NextExtract ==
    \/ ExtractText

SpecExtract == InitExtract /\ [][NextExtract]_vars

\* process has extracted the text of the LLM's answer
InitProcess ==
    /\ InitRest
    /\ InitStandalone
    /\ input_data \in InputData
    /\ json_response \in ExtractedTexts
    /\ parsed_response = NoObject
    /\ process_pc = "extracted"
    /\ process_out = NoObject
    /\ NoStepCall
    /\ NoInterpretation
    /\ NoExtraction

NextProcess ==
    \/ ParseAndMergeDefaults
    \/ ValidateAndReturn

SpecProcess == InitProcess /\ [][NextProcess]_vars

\* run has set the goal and stored the four-step plan create_plan falls
\* back on; execute_plan is about to start, the watchdog is running, no
\* control file exists
InitBudget ==
    /\ safety_status = InitSafetyStatus
    /\ step_count = 0
    /\ screenshot_count = 0
    /\ request_count = 0
    /\ run_time = 0
    /\ dev_disable_safety \in BOOLEAN
    /\ killswitch_file = FALSE
    /\ pause_file = FALSE
    /\ agents = AllAgents
    /\ goals = add_goal(<<>>)
    /\ current_goal = 1
    /\ plans = memory_create_plan(<<>>, 1,
                    create_plan_steps([success |-> FALSE, plan |-> <<>>]))
    /\ current_plan = 1
    /\ execution_history = <<>>
    /\ pc = "execute_plan"
    /\ step_index = 0
    /\ success = FALSE
    /\ retry_count = 0
    /\ dispatched = <<>>
    /\ exit_at = "none"
    /\ hist_base = 0
    /\ InitAgent
    /\ agent_pc = "idle"
    /\ debug_mode = FALSE
    /\ critic_attached = FALSE
    /\ pipe_in = <<>>
    /\ pipe_stage = "none"
    /\ InitCalls

\* one call of execute_plan, the watchdog passing and time going by beside
\* it, executors counting their screenshots and requests, the operator
\* creating and removing control files
NextBudget ==
    \/ ExecutePlanEnter
    \/ PreStepCheck
    \/ IncrementLoad
    \/ IncrementStore
    \/ StepReturn
    \/ PlanComplete
    \/ RunReturn
    \/ WatchdogTick
    \/ ClockTick
    \/ increment_screenshot
    \/ increment_request
    \/ ControlFileKill
    \/ ControlFilePause

SpecBudget == InitBudget /\ [][NextBudget]_vars

\* the same with the watchdog thread scheduled again and again: its loop
\* never ends and sleeps two seconds between passes
SpecBudgetFair == SpecBudget /\ WF_vars(WatchdogTick)

\* FailsafeSystem.__init__ has just started the watchdog thread; the
\* control files are whatever an earlier process left behind; main goes on
\* with or without --no-killswitch
InitControl ==
    /\ safety_status = InitSafetyStatus
    /\ step_count = 0
    /\ screenshot_count = 0
    /\ request_count = 0
    /\ run_time = 0
    /\ dev_disable_safety = FALSE
    /\ killswitch_file \in BOOLEAN
    /\ pause_file \in BOOLEAN
    /\ current_plan = 0
    /\ plans = <<>>
    /\ execution_history = <<>>
    /\ step_index = 0
    /\ success = FALSE
    /\ retry_count = 0
    /\ dispatched = <<>>
    /\ exit_at = "none"
    /\ hist_base = 0
    /\ agents = AllAgents
    /\ InitAgent
    /\ goals = <<>>
    /\ current_goal = 0
    /\ pc = "main_loop"
    /\ agent_pc = "idle"
    /\ debug_mode = FALSE
    /\ critic_attached = FALSE
    /\ pipe_in = <<>>
    /\ pipe_stage = "none"
    /\ NoStepCall
    /\ NoInterpretation
    /\ NoExtraction
    /\ NoProcessCall
    /\ loaded_step_count = 0
    /\ wd_pc = "check_kill"
    /\ caller_pc = "startup"
    /\ no_killswitch \in BOOLEAN
    /\ kill_lifted = "nothing"
    /\ pause_held = FALSE

\* the watchdog thread, and a thread that goes through main's start and
\* then calls the FailsafeSystem, one call after the other
NextControl ==
    \/ WatchdogKillExists
    \/ WatchdogKillSet
    \/ WatchdogPauseExists
    \/ WatchdogPauseSet
    \/ WatchdogPauseClear
    \/ WatchdogBudgets
    \/ ClockTick
    \/ MainNoKillswitch
    \/ ActivateSet
    \/ ActivateTouch
    \/ DeactivateClear
    \/ DeactivateUnlink
    \/ PauseSet
    \/ PauseTouch
    \/ ResumeClear
    \/ ResumeUnlink

SpecControl == InitControl /\ [][NextControl]_vars

----------------------------------------------------------------------------
\* Properties of the execution control loop (checked under Spec)

\* indices of the steps of plan p that were handed to _execute_step, in order
RECURSIVE DispatchedOf(_, _)
DispatchedOf(p, log) ==
    IF log = <<>> THEN <<>>
    ELSE (IF Head(log)[1] = p THEN <<Head(log)[2]>> ELSE <<>>)
         \o DispatchedOf(p, Tail(log))

\* the run has left execute_plan and run has set the goal status
RunOver == pc \in {"main_check", "main_loop", "done"}

\* C1: when can_proceed() is false at the check before step k (1-based;
\* step_index = k - 1) after steps 1..k-1 succeeded, no step with index >= k
\* is dispatched and exactly k-1 ExecutionRecords exist.
C1_AbortLeavesKMinusOneRecords ==
    exit_at = "failsafe" =>
        /\ \A i \in 1..Len(dispatched) :
              dispatched[i][1] = current_plan => dispatched[i][2] < step_index
        /\ Len(execution_history) = step_index

\* C2: when execute_plan returns because can_proceed() was false, the
\* plan's status is "failed".
C2_AbortedPlanIsFailed ==
    exit_at = "failsafe" => plans[current_plan].status = "failed"

\* C3: a failed step is terminal. For every plan marked failed, the failing
\* step (current_step) is the last one dispatched, every step was dispatched
\* at most once (no retry), nothing after it is ever dispatched, and once
\* run has returned the plan's goal is failed.
C3_StepFailureTerminal ==
    \A p \in 1..Len(plans) :
        plans[p].status = "failed" =>
            /\ DispatchedOf(p, dispatched) = [i \in 1..(plans[p].current_step + 1) |-> i - 1]
            /\ (p # current_plan \/ RunOver) => goals[plans[p].goal_id].status = "failed"

\* a plan failed at its second step with steps left over, and the program
\* has ended
C3_Witness ==
    /\ pc = "done"
    /\ \E p \in 1..Len(plans) :
          /\ plans[p].status = "failed"
          /\ plans[p].current_step = 1
          /\ Len(plans[p].steps) > 2

\* C4: the failing step is recorded too: when step k (step_index = k - 1)
\* is the first to fail, execute_plan leaves exactly k records of this
\* execution.
C4_FailingStepIsRecorded ==
    exit_at = "step_failed" => Len(execution_history) - hist_base = step_index + 1

\* C5: when every step succeeds and every failsafe check passes, the steps
\* were dispatched one at a time in index order, the plan is complete with
\* current_step = n, exactly n records were appended (those of steps
\* 0..n-1 in order), and run sets the goal to complete.
C5_SuccessfulRun ==
    exit_at = "complete" =>
        LET plan == plans[current_plan]
            n == Len(plan.steps)
        IN  /\ plan.status = "complete"
            /\ plan.current_step = n
            /\ DispatchedOf(current_plan, dispatched) = [i \in 1..n |-> i - 1]
            /\ Len(execution_history) - hist_base = n
            /\ \A i \in 1..n : execution_history[hist_base + i].step_index = i - 1
            /\ success
            /\ RunOver => goals[current_goal].status = "complete"

\* a retry whose four-step plan ran to the end
C5_Witness ==
    /\ exit_at = "complete"
    /\ pc = "done"
    /\ retry_count > 0
    /\ Len(plans[current_plan].steps) > 2

\* C6: every plan always has current_step <= len(steps), and a complete
\* plan has current_step = len(steps).
C6_PlanInvariant ==
    \A p \in 1..Len(plans) :
        /\ plans[p].current_step <= Len(plans[p].steps)
        /\ plans[p].status = "complete" => plans[p].current_step = Len(plans[p].steps)

\* an aborted plan, then a complete one
C6_Witness ==
    /\ Len(plans) > 1
    /\ plans[1].status = "executing"
    /\ plans[1].current_step > 0
    /\ plans[Len(plans)].status = "complete"
    /\ pc = "done"

\* C7: a goal's status moves only pending -> in_progress -> complete or
\* failed.
C7_GoalStatusOrder ==
    [][\A g \in 1..Len(goals) :
          goals'[g].status # goals[g].status =>
              <<goals[g].status, goals'[g].status>> \in
                  {<<"pending", "in_progress">>,
                   <<"in_progress", "complete">>,
                   <<"in_progress", "failed">>}]_vars

\* C11: a SIGINT / SIGTERM delivered while a step is in flight sets
\* killswitch_active and leaves the step in flight; the step then returns
\* and is accounted for as any other (recorded and the plan advanced, or
\* the plan failed); and with the override unset, once the killswitch is
\* up it stays up and no further step is dispatched: execute_plan never
\* gets past a pre-step check again.
C11_SignalMidStep ==
    [][/\ (pc = "in_step" /\ SignalHandler) =>
              (safety_status'.killswitch_active /\ pc' = "in_step")
       /\ (pc = "in_step" /\ safety_status.killswitch_active /\ pc' # "in_step") =>
              \/ /\ pc' = "pre_step"
                 /\ Len(execution_history') = Len(execution_history) + 1
                 /\ plans'[current_plan].current_step = step_index + 1
              \/ /\ pc' = "run_return"
                 /\ plans'[current_plan].status = "failed"
       /\ (safety_status.killswitch_active /\ ~dev_disable_safety) =>
              /\ safety_status'.killswitch_active
              /\ pc # "increment" => (pc' # "increment" /\ dispatched' = dispatched)
      ]_vars

\* the first run was stopped at the check before its second step by the
\* killswitch alone: the flag went up after the first step had passed its
\* own check
C11_Witness ==
    /\ exit_at = "failsafe"
    /\ retry_count = 0
    /\ dispatched = <<<<1, 0>>>>
    /\ Len(execution_history) = 1
    /\ step_index = 1
    /\ Len(plans[1].steps) > 1
    /\ ~dev_disable_safety
    /\ safety_status.killswitch_active
    /\ ~safety_status.pause_active
    /\ ~safety_status.budget_exceeded

\* C22: when an executor the step needs is not registered the step fails:
\* no plan executed without the three executors becomes complete and no
\* goal run without them is marked complete.
C22_MissingExecutorFails ==
    agents # AllAgents =>
        /\ \A p \in 1..Len(plans) : plans[p].status # "complete"
        /\ \A g \in 1..Len(goals) : goals[g].status # "complete"

\* the agents _execute_step called before it returned True: those
\* registered for the four phases
CalledAgents ==
    {<<"perception", phase_responses.perception>>,
     <<"overseer", phase_responses.planning>>,
     <<"operator", phase_responses.operation>>,
     <<"critic", phase_responses.validation>>}

\* C23: a step is reported successful only if every executor call made for
\* it (perception, overseer coordination, operator, critic validation)
\* succeeded: a call that returned success=false or raised makes
\* _execute_step return False.
C23_EveryCallMustSucceed ==
    (step_pc = "returned" /\ step_returned) =>
        \A call \in CalledAgents :
            call[1] \in agents => call[2] = "success"

\* C24: an executor response is interpreted as successful exactly when its
\* success field is the boolean true, or it has no boolean success field
\* and its status is a string equal, whatever the case, to "success",
\* "completed", "done" or "ok".
C24_SuccessInterpretation ==
    interpret_pc \in {"assessed", "dispatched"} =>
        (interpreted <=>
            \/ exec_response.success = "true"
            \/ /\ exec_response.success \notin {"true", "false"}
               /\ LowerStatus(exec_response.status) \in SuccessWords)

\* C40: while execute_plan runs, execution_history holds at most one record
\* for each step of the current plan attempted so far (step_index of them
\* are behind, one more is under way after the check), on a first run and
\* on every retry alike.
C40_HistoryOfCurrentPlan ==
    pc \in {"pre_step", "increment", "in_step", "run_return"} =>
        Len(execution_history) <= step_index + (IF pc = "in_step" THEN 1 ELSE 0)

----------------------------------------------------------------------------
\* Properties of execute_plan beside the watchdog (checked under SpecBudget
\* and SpecBudgetFair)

\* steps that passed the check at the head of the loop: those handed to
\* _execute_step and the one between the check and the call
ChecksPassed ==
    Len(dispatched) + (IF pc \in {"increment", "increment_store"} THEN 1 ELSE 0)

\* passes of the check whose increment_step has not written yet
IncrementPending ==
    IF pc \in {"increment", "increment_store"} THEN 1 ELSE 0

\* C32: no step lowers step_count, screenshot_count or request_count, and
\* however the watchdog's passes fall between the check, the read and the
\* write of step_count += 1, step_count is the number of steps that passed
\* the check, less the one whose increment is still under way; once
\* _execute_step is called the two are equal.
C32_CountersSafe ==
    /\ [](/\ step_count = ChecksPassed - IncrementPending
          /\ step_count = Len(dispatched)
          /\ pc = "in_step" => step_count = ChecksPassed)
    /\ [][/\ step_count' >= step_count
          /\ screenshot_count' >= screenshot_count
          /\ request_count' >= request_count]_vars

\* three steps were counted, the fourth passed its check and step_count
\* was read for it; the watchdog has set the budget flag meanwhile and the
\* executors have counted a screenshot and a request
C32_Witness ==
    /\ step_count = 3
    /\ pc = "increment_store"
    /\ loaded_step_count = 3
    /\ ChecksPassed = 4
    /\ safety_status.budget_exceeded
    /\ screenshot_count > 0
    /\ request_count > 0

\* C39: with the dev override unset, at most max_steps + 1 steps are ever
\* handed to _execute_step, wherever the watchdog's passes fall.
C39_StepBudgetBounds ==
    ~dev_disable_safety => Len(dispatched) <= max_steps + 1

\* a budget the watchdog compares is exceeded
Breach ==
    \/ step_count > max_steps
    \/ screenshot_count > max_screenshots
    \/ run_time > max_run_seconds

\* C34 as stated, its second part: once budget_exceeded is true and the
\* override is unset, no step is handed to _execute_step any more.
C34_NoDispatchAfterBreach ==
    [][(safety_status.budget_exceeded /\ ~dev_disable_safety) =>
            dispatched' = dispatched]_vars

\* C34: when the step count, the screenshot count or the run time exceeds
\* its limit, the watchdog, scheduled again and again, eventually sets
\* budget_exceeded; the flag is never up without one of these three
\* exceeded, so requests beyond max_requests alone do not set it; and while
\* it is up with the override unset no further step passes the check at the
\* head of execute_plan's loop: only a step whose check had passed before is
\* still handed to _execute_step.
C34_BreachDetected ==
    /\ Breach ~> safety_status.budget_exceeded
    /\ [](safety_status.budget_exceeded => Breach)
    /\ [][(safety_status.budget_exceeded /\ ~dev_disable_safety) =>
              ChecksPassed' = ChecksPassed]_vars

\* execute_plan was stopped by the budget flag before the plan's last step,
\* after the step count went past its limit; the requests are past theirs
C34_Witness ==
    /\ safety_status.budget_exceeded
    /\ ~dev_disable_safety
    /\ exit_at = "failsafe"
    /\ step_count > max_steps
    /\ request_count > max_requests
    /\ run_time <= max_run_seconds
    /\ screenshot_count <= max_screenshots
    /\ Len(dispatched) < Len(plans[current_plan].steps)

----------------------------------------------------------------------------
\* Properties of the calls beside the watchdog (checked under SpecControl)

\* C35: once main, started with --no-killswitch, has removed a kill file
\* left by an earlier run, killswitch_active is false and can_proceed() is
\* not held back by it, as long as nothing raises the killswitch again.
C35_StaleKillswitchDisabled ==
    kill_lifted = "no_killswitch" =>
        /\ ~safety_status.killswitch_active
        /\ (~safety_status.pause_active /\ ~safety_status.budget_exceeded)
               => can_proceed

\* C36: once deactivate_killswitch() has returned and nothing has raised
\* the killswitch again, killswitch_active is false, wherever the
\* watchdog's statements fall between those of the call.
C36_DeactivateEffective ==
    kill_lifted = "deactivate" => ~safety_status.killswitch_active

\* C37: from the return of pause_system() until resume_system() is called,
\* pause_active is true and can_proceed() false (the override is unset),
\* wherever the watchdog's statements fall between those of the call.
C37_PauseEffective ==
    pause_held => (safety_status.pause_active /\ ~can_proceed)

----------------------------------------------------------------------------
\* Properties of the FailsafeSystem (checked under SpecFailsafe)

\* C8: budget_exceeded, once true, stays true whatever is called.
C8_BudgetMonotonic ==
    [][safety_status.budget_exceeded => safety_status'.budget_exceeded]_vars

\* the budget flag is up after the killswitch was lifted, the system was
\* resumed, a breaker closed and an action recorded
C8_Witness ==
    /\ safety_status.budget_exceeded
    /\ ~safety_status.killswitch_active /\ ~killswitch_file
    /\ ~safety_status.pause_active /\ ~pause_file
    /\ \E t \in Tools : safety_status.circuit_breakers[t] = "closed"
    /\ \E g \in Signatures : safety_status.loop_detection[g] > 0

\* C9: with the dev override set can_proceed() is true, whatever the
\* killswitch, pause and budget flags are.
C9_OverrideAlwaysProceeds ==
    dev_disable_safety => can_proceed

C9_Witness ==
    /\ dev_disable_safety
    /\ safety_status.killswitch_active
    /\ safety_status.pause_active
    /\ safety_status.budget_exceeded

\* C10: with the dev override unset can_proceed() is false exactly when
\* the killswitch, the pause or the budget flag is up; breakers and loop
\* counters play no part.
C10_ProceedIffNoFlag ==
    ~dev_disable_safety =>
        (can_proceed <=> ~(\/ safety_status.killswitch_active
                           \/ safety_status.pause_active
                           \/ safety_status.budget_exceeded))

\* no flag is up while a breaker is open and a loop counter is at its limit
C10_Witness ==
    /\ ~dev_disable_safety
    /\ ~safety_status.killswitch_active
    /\ ~safety_status.pause_active
    /\ ~safety_status.budget_exceeded
    /\ \E t \in Tools : ~check_circuit_breaker(t)
    /\ \E g \in Signatures : ~check_loop_detection(g, DefaultMaxRepeats)

\* C30: check_circuit_breaker(tool) is true exactly while the tool's
\* breaker was never opened or was closed since; a breaker changes only to
\* "open" or "closed", in a step that leaves every other tool's breaker,
\* the flags, the counters, the clock and the control files as they were
\* (a call of open_circuit_breaker or close_circuit_breaker for that tool,
\* never a watchdog pass or the passing of time), and once set it is never
\* forgotten.
C30_BreakersExplicitOnly ==
    [][\A t \in Tools :
          LET before == safety_status.circuit_breakers[t]
              after == safety_status'.circuit_breakers[t]
          IN  /\ check_circuit_breaker(t) <=> before \in {"absent", "closed"}
              /\ check_circuit_breaker(t)' <=> after # "open"
              /\ after # before =>
                    /\ after \in {"open", "closed"}
                    /\ \A u \in Tools \ {t} :
                          safety_status'.circuit_breakers[u]
                              = safety_status.circuit_breakers[u]
                    /\ safety_status' =
                          [safety_status EXCEPT !.circuit_breakers[t] = after]
                    /\ UNCHANGED <<step_count, screenshot_count, request_count,
                                   run_time, killswitch_file, pause_file>>
      ]_vars

\* the watchdog has found the budget exceeded while one breaker is open,
\* another was opened and closed again and is reported closed
C30_Witness ==
    /\ safety_status.budget_exceeded
    /\ safety_status.circuit_breakers["browser"] = "open"
    /\ safety_status.circuit_breakers["mouse"] = "closed"
    /\ ~check_circuit_breaker("browser")
    /\ check_circuit_breaker("mouse")

\* C31: check_loop_detection(signature, max_repeats) is false exactly when
\* the signature's counter has reached max_repeats (3 when the caller does
\* not say); the counters start at 0 and a counter changes only by going
\* up by one, in a step that leaves every other signature's counter, the
\* flags, the breakers, the step, screenshot and request counters, the
\* clock and the control files as they were (a call of record_action for
\* that signature), so the counter is the number of such calls.
C31_LoopDetection ==
    [][\A s \in Signatures :
          LET before == safety_status.loop_detection[s]
              after == safety_status'.loop_detection[s]
          IN  /\ \A max_repeats \in 0..(RepeatCap + 1) :
                    /\ check_loop_detection(s, max_repeats) <=> before < max_repeats
                    /\ check_loop_detection(s, max_repeats)' <=> after < max_repeats
              /\ check_loop_detection(s, DefaultMaxRepeats) <=> before < 3
              /\ after # before =>
                    /\ after = before + 1
                    /\ \A u \in Signatures \ {s} :
                          safety_status'.loop_detection[u]
                              = safety_status.loop_detection[u]
                    /\ safety_status' =
                          [safety_status EXCEPT !.loop_detection[s] = after]
                    /\ UNCHANGED <<step_count, screenshot_count, request_count,
                                   run_time, killswitch_file, pause_file>>
      ]_vars

\* one action was recorded three times and is reported as a loop, another
\* twice and is not, while the system is paused
C31_Witness ==
    /\ safety_status.loop_detection["click@1"] = 3
    /\ safety_status.loop_detection["type@2"] = 2
    /\ ~check_loop_detection("click@1", DefaultMaxRepeats)
    /\ check_loop_detection("type@2", DefaultMaxRepeats)
    /\ ~check_loop_detection("type@2", 2)
    /\ safety_status.pause_active

\* C38: a watchdog pass never lowers killswitch_active, whether the kill
\* file exists or not, while it does lower pause_active when the pause file
\* is gone; killswitch_active goes from true to false only in a step that
\* also leaves the kill file removed and changes nothing else (a call of
\* deactivate_killswitch).
C38_KillswitchSticky ==
    [][/\ WatchdogTick =>
            /\ safety_status.killswitch_active => safety_status'.killswitch_active
            /\ ~pause_file => ~safety_status'.pause_active
       /\ (safety_status.killswitch_active /\ ~safety_status'.killswitch_active) =>
            /\ ~killswitch_file'
            /\ safety_status' = [safety_status EXCEPT !.killswitch_active = FALSE]
            /\ UNCHANGED <<step_count, screenshot_count, request_count, run_time,
                           dev_disable_safety, pause_file>>
      ]_vars

\* the killswitch is still up although its file is gone and a watchdog pass
\* has since set the budget flag and left the pause flag down
C38_Witness ==
    /\ safety_status.killswitch_active
    /\ ~killswitch_file
    /\ safety_status.budget_exceeded
    /\ ~safety_status.pause_active /\ ~pause_file
    /\ step_count > max_steps
    /\ run_time <= max_run_seconds

\* what a watchdog pass makes of the safety status in the current state
AfterPass == _check_budgets(_check_control_files(safety_status))

\* a watchdog pass now would change nothing: the status is as a pass left it
PassedOver == safety_status = AfterPass

\* after a watchdog pass the pause flag is up exactly when pause.on exists
\* and the killswitch flag is up if killswitch.on exists
MirrorsControlFiles ==
    /\ safety_status.pause_active <=> pause_file
    /\ killswitch_file => safety_status.killswitch_active

\* C33 as stated: after each watchdog pass the flags mirror the control
\* files as above, and when the status is as a pass left it and a step
\* changes neither the control files nor the counters nor the status, a
\* further pass changes no field of the status.
C33_PassIdempotent ==
    [][/\ WatchdogTick => MirrorsControlFiles'
       /\ (PassedOver /\ UNCHANGED <<safety_status, killswitch_file, pause_file,
                                     step_count, screenshot_count, request_count>>)
              => PassedOver'
      ]_vars

\* C33: after each watchdog pass the flags mirror the control files as
\* above, and a further pass with the control files, the counters and the
\* run time as they were changes no field of the status.
C33_PassIdempotentSameClock ==
    [][/\ WatchdogTick => (MirrorsControlFiles' /\ PassedOver')
       /\ (PassedOver /\ UNCHANGED <<safety_status, killswitch_file, pause_file,
                                     step_count, screenshot_count, request_count,
                                     run_time>>)
              => PassedOver'
      ]_vars

\* a pass has found both control files and the step budget exceeded while
\* the run time is within its limit: a further pass would change nothing
C33_Witness ==
    /\ PassedOver
    /\ safety_status.killswitch_active /\ killswitch_file
    /\ safety_status.pause_active /\ pause_file
    /\ safety_status.budget_exceeded
    /\ step_count > max_steps
    /\ run_time <= max_run_seconds

----------------------------------------------------------------------------
\* Properties of the approval loop (checked under SpecApproval)

\* _create_plan has returned its response
Returned == agent_pc \in {"returned", "idle"}

\* C12: the approval threshold is inclusive and holds in every iteration,
\* the last one included: once a critic has scored a drafted plan at 0.8 or
\* more, the loop has stopped, and the response _create_plan returns has
\* plan_approved = true.
C12_InclusiveApproval ==
    best_score >= approval_threshold =>
        /\ agent_pc # "loop"
        /\ Returned => response.plan_approved

\* C13: in non-debug mode a call of _create_plan requests at most
\* max_iterations drafts from the planner, whatever it is answered.
C13_LoopBounded ==
    ~debug_mode => drafts_requested <= max_iterations

\* C14: an iteration that fails (no approval, no improved plan) after two
\* failures in a row brings consecutive_failures to 3; in non-debug mode
\* the iteration counter and consecutive_failures are then reset to 0 and
\* the loop goes on drafting, in debug mode the process is aborted.
C14_ResetAtThreeFailures ==
    [][(/\ drafts_requested' # drafts_requested
        /\ consecutive_failures = failure_limit - 1
        /\ approved_at' = approved_at
        /\ improved_plan' = <<>>) =>
           IF debug_mode
           THEN agent_pc' = "exited"
           ELSE /\ iteration' = 0
                /\ consecutive_failures' = 0
                /\ agent_pc' = "loop"]_vars

\* C15: when the improvement pass of one iteration returned an improved
\* plan, the plan the critic scores in the next iteration is that plan.
C15_ImprovedPlanCarried ==
    [][(/\ drafts_requested' # drafts_requested
        /\ improved_plan # <<>>
        /\ scored_plan' # <<>>) =>
           scored_plan' = improved_plan]_vars

\* C16: when _create_plan returns after max_iterations drafts none of
\* which was approved, the response has plan_approved = false and carries
\* the best plan of the call: the plan of the highest-scored iteration, and
\* a non-empty plan whenever some iteration produced one.
C16_BestPlanReturned ==
    (Returned /\ approved_at = 0 /\ iteration >= max_iterations) =>
        /\ ~response.plan_approved
        /\ best_score >= 0 => response.plan = best_plan
        /\ nonempty_seen => response.plan # <<>>

\* C17: the plan Overseer.create_plan stores for execute_plan is the plan
\* of a response with plan_approved = true, never that of an unapproved
\* response and never the fallback steps.
C17_OnlyApprovedExecuted ==
    handed \in {"none", "approved"}

----------------------------------------------------------------------------
\* Properties of the drafting pipeline (checked under SpecPipeline)

\* the steps of the draft _clean_plan_steps keeps: non-blank strings, dicts
KeptSteps == SelectSeq(pipe_in, LAMBDA st : st.kind = "dict"
                                            \/ (st.kind = "str" /\ ~st.blank))

\* positions in pipe_out of the steps that were not inserted as
\* preconditions
OriginalPositions ==
    SelectSeq([j \in 1..Len(pipe_out) |-> j],
              LAMBDA j : pipe_out[j].description # "identify")

\* what stays of a step whatever the pipeline does to its action and id
Identity(st) == <<st.kind, st.next_agent, st.agent, st.description, st.coordinates>>

\* C18: after _clean_plan_steps and _enforce_capabilities_and_preconditions
\* every step has one of the three roles and an action of that role's set
\* (perception: analyze, identify; operator: move_mouse, click, type,
\* scroll, navigate; overseer: plan, coordinate, evaluate, complete); a
\* drafted action outside the set was replaced by the role's default
\* (analyze, navigate, plan) and one inside it was kept.
C18_CapabilityEnforcement ==
    pipe_stage = "enforced" =>
        LET Allowed(role) ==
                IF role = "perception" THEN {"analyze", "identify"}
                ELSE IF role = "operator"
                     THEN {"move_mouse", "click", "type", "scroll", "navigate"}
                ELSE IF role = "overseer"
                     THEN {"plan", "coordinate", "evaluate", "complete"}
                ELSE {}
            Default(role) ==
                IF role = "perception" THEN "analyze"
                ELSE IF role = "operator" THEN "navigate" ELSE "plan"
        IN  /\ \A j \in 1..Len(pipe_out) :
                  pipe_out[j].action \in Allowed(pipe_out[j].next_agent)
            /\ KeptSteps # <<>> =>
                  /\ Len(OriginalPositions) = Len(KeptSteps)
                  /\ \A i \in 1..Len(KeptSteps) :
                        LET drafted == KeptSteps[i]
                            final == pipe_out[OriginalPositions[i]]
                        IN  drafted.kind = "dict" =>
                              final.action =
                                  IF drafted.action \in Allowed(final.next_agent)
                                  THEN drafted.action
                                  ELSE Default(final.next_agent)

\* a draft with an overseer step asking for "navigate" and a perception
\* step asking for "click" went through both stages
C18_Witness ==
    /\ pipe_stage = "enforced"
    /\ \E i, j \in 1..Len(pipe_in) :
          /\ pipe_in[i].kind = "dict"
          /\ pipe_in[i].next_agent = "overseer" /\ pipe_in[i].action = "navigate"
          /\ pipe_in[j].kind = "dict"
          /\ pipe_in[j].next_agent = "perception" /\ pipe_in[j].action = "click"
    /\ \E j \in 1..Len(pipe_out) :
          pipe_out[j].next_agent = "overseer" /\ pipe_out[j].action = "plan"

\* the list _enforce_capabilities_and_preconditions was called with
EnforceInput == IF pipe_stage = "enforced" THEN pipe_cleaned ELSE pipe_in

\* C19: in the output of _enforce_capabilities_and_preconditions every
\* operator step with action move_mouse, click or scroll and no
\* coordinates has a perception "identify" step right before it, the steps
\* passed in appear in their order, and the ids are 1..len(output).
C19_PreconditionInsertion ==
    pipe_stage \in {"enforced", "enforced_only"} =>
        /\ \A j \in 1..Len(pipe_out) :
              (/\ pipe_out[j].next_agent = "operator"
               /\ pipe_out[j].action \in {"move_mouse", "click", "scroll"}
               /\ ~pipe_out[j].coordinates) =>
                  /\ j > 1
                  /\ pipe_out[j - 1].next_agent = "perception"
                  /\ pipe_out[j - 1].action = "identify"
        /\ [i \in 1..Len(OriginalPositions) |->
               Identity(pipe_out[OriginalPositions[i]])]
           = [i \in 1..Len(EnforceInput) |-> Identity(EnforceInput[i])]
        /\ \A j \in 1..Len(pipe_out) : pipe_out[j].id = j

\* two dicts passed straight in: a click with an id of its own and no
\* coordinates, then a step with coordinates, came back as three steps
C19_Witness ==
    /\ pipe_stage = "enforced_only"
    /\ Len(pipe_in) = 2
    /\ pipe_in[1].action = "click" /\ ~pipe_in[1].coordinates /\ pipe_in[1].id = 5
    /\ pipe_in[2].coordinates
    /\ Len(pipe_out) = 3
    /\ pipe_out[1].action = "identify"

\* C20: through _clean_plan_steps and then
\* _enforce_capabilities_and_preconditions a drafted operator step that
\* carries coordinates still carries them and has no inserted "identify"
\* step before it.
C20_CoordinatesPreserved ==
    (pipe_stage = "enforced" /\ KeptSteps # <<>>) =>
        \A i \in 1..Len(KeptSteps) :
            LET drafted == KeptSteps[i]
                pos == OriginalPositions[i]
            IN  (/\ drafted.kind = "dict"
                 /\ drafted.coordinates
                 /\ pipe_out[pos].next_agent = "operator") =>
                    /\ pipe_out[pos].coordinates
                    /\ ~(pos > 1 /\ pipe_out[pos - 1].description = "identify")

\* C21: _clean_plan_steps returns a non-empty list whatever it is given;
\* every string that is not empty after strip became a structured step
\* with next_agent perception and action analyze, every dict came out with
\* one of the three roles and a non-empty action (its own role and action
\* when it had a valid role and an action, the role's default action when
\* it had none), and the steps kept are in the order of the input.
C21_NormalizationNeverRejects ==
    pipe_stage \in {"cleaned", "enforced"} =>
        /\ pipe_cleaned # <<>>
        /\ \A j \in 1..Len(pipe_cleaned) :
              /\ pipe_cleaned[j].kind = "dict"
              /\ pipe_cleaned[j].next_agent \in {"perception", "operator", "overseer"}
              /\ pipe_cleaned[j].action # ""
        /\ KeptSteps # <<>> =>
              /\ Len(pipe_cleaned) = Len(KeptSteps)
              /\ \A i \in 1..Len(KeptSteps) :
                    LET drafted == KeptSteps[i]
                        cleaned == pipe_cleaned[i]
                    IN  /\ drafted.kind = "str" =>
                              /\ cleaned.next_agent = "perception"
                              /\ cleaned.action = "analyze"
                        /\ (drafted.kind = "dict" /\ drafted.action = "") =>
                              cleaned.action =
                                  IF cleaned.next_agent = "perception" THEN "analyze"
                                  ELSE IF cleaned.next_agent = "operator" THEN "navigate"
                                  ELSE "plan"
                        /\ (drafted.kind = "dict" /\ drafted.next_agent = ""
                                /\ drafted.agent = "") =>
                              cleaned.next_agent = "perception"
                        /\ (drafted.kind = "dict"
                                /\ drafted.next_agent \in {"perception", "operator", "overseer"}) =>
                              cleaned.next_agent = drafted.next_agent
                        /\ (drafted.kind = "dict" /\ drafted.description # "absent") =>
                              cleaned.description = drafted.description
                        /\ (drafted.kind = "dict" /\ drafted.id # 0) =>
                              cleaned.id = drafted.id

\* a string and a dict with neither role nor action were cleaned, in that
\* order
C21_Witness ==
    /\ pipe_stage = "cleaned"
    /\ Len(pipe_in) = 2
    /\ pipe_in[1].kind = "str" /\ ~pipe_in[1].blank
    /\ pipe_in[2].kind = "dict"
    /\ pipe_in[2].next_agent = "" /\ pipe_in[2].agent = ""
    /\ pipe_in[2].action = ""
    /\ Len(pipe_cleaned) = 2
    /\ pipe_cleaned[1].action = "analyze"
    /\ pipe_cleaned[2].next_agent = "perception"

----------------------------------------------------------------------------
\* Properties of the extraction (checked under SpecExtract)

\* the objects among the parts of a text, in their order
ValidParts(parts) == SelectSeq(parts, LAMBDA p : p \in ObjectParts)

\* no stray quote or brace, no delimiter, no fence among the parts
CleanParts(parts) ==
    \A i \in 1..Len(parts) : parts[i] \in ObjectParts \cup PlainParts

\* C25: from a text with two or more top-level balanced spans that parse
\* as JSON, no delimiter and no fenced block,
\* _extract_text_from_llm_response returns the last such span; balanced
\* spans that do not parse, wherever they stand, change nothing.
C25_LastObjectPreferred ==
    (/\ extract_pc = "returned"
     /\ CleanParts(response_parts)
     /\ Len(ValidParts(response_parts)) >= 2) =>
        extracted = ValidParts(response_parts)[Len(ValidParts(response_parts))]

\* two different objects with a span that does not parse between them
C25_Witness ==
    /\ extract_pc = "returned"
    /\ Len(response_parts) = 3
    /\ response_parts[1] \in ObjectParts
    /\ response_parts[2] = InvalidSpan
    /\ response_parts[3] \in ObjectParts
    /\ response_parts[1] # response_parts[3]
    /\ extracted = response_parts[3]

\* the first delimiter among the parts, 0 when there is none
DelimiterAt(parts) ==
    IF \E i \in 1..Len(parts) : parts[i] = <<Delimiter>>
    THEN CHOOSE i \in 1..Len(parts) :
             /\ parts[i] = <<Delimiter>>
             /\ \A j \in 1..(i - 1) : parts[j] # <<Delimiter>>
    ELSE 0

\* the parts before the first delimiter and those after it
PreParts(parts) == SubSeq(parts, 1, DelimiterAt(parts) - 1)
PostParts(parts) == SubSeq(parts, DelimiterAt(parts) + 1, Len(parts))

\* the last object among the parts
LastValid(parts) == ValidParts(parts)[Len(ValidParts(parts))]

C27_BracesInStringsIgnored ==
    (/\ extract_pc = "returned"
     /\ CleanParts(response_parts)
     /\ \E i \in 1..Len(response_parts) :
            response_parts[i] \in {BraceObject, QuotedBrace}
     /\ ValidParts(response_parts) # <<>>) =>
        extracted = LastValid(response_parts)

\* the object with braces in its string, a quoted brace in prose, then
\* another object, which was returned
C27_Witness ==
    /\ extract_pc = "returned"
    /\ Len(response_parts) = 3
    /\ response_parts[1] = BraceObject
    /\ response_parts[2] = QuotedBrace
    /\ response_parts[3] \in ObjectParts \ {BraceObject}
    /\ extracted = response_parts[3]

\* out is text without the blanks at its two ends
Trimmed(out, text) ==
    \E a \in 0..Len(text) : \E b \in 0..(Len(text) - a) :
        /\ out = SubSeq(text, a + 1, Len(text) - b)
        /\ \A i \in 1..a : text[i] = " "
        /\ \A i \in (Len(text) - b + 1)..Len(text) : text[i] = " "
        /\ out # <<>> => (out[1] # " " /\ out[Len(out)] # " ")

\* no part is an object and none is a stray opening brace, so that no
\* span of the text, of its post-delimiter segment or of a fenced block
\* parses
NothingParses(parts) ==
    \A i \in 1..Len(parts) : parts[i] \notin ObjectParts \cup {<<"{">>}

\* C28: when no balanced span of the searched texts parses as JSON the
\* original response is returned with the blanks at its ends trimmed; and
\* whatever the text, the result is either an object that parses or the
\* trimmed response, never a fragment that does not parse.
C28_FallbackTrimmedResponse ==
    extract_pc = "returned" =>
        /\ NothingParses(response_parts) => Trimmed(extracted, llm_response)
        /\ \/ Trimmed(extracted, llm_response)
           \/ extracted[1] = "{" /\ json_loads(extracted)

\* a text with blanks around a balanced span that does not parse and some
\* prose came back trimmed
C28_Witness ==
    /\ extract_pc = "returned"
    /\ response_parts = << <<" ">>, InvalidSpan, <<"a">>, <<" ">> >>
    /\ extracted = InvalidSpan \o <<"a">>

----------------------------------------------------------------------------
\* Properties of GPTOSS20BAgent.process (checked under SpecProcess)

\* C29: the defaults for role, success and action are in the parsed
\* response when _validate_json_response runs; an object the LLM gave, or
\* a non-empty one repaired from its text, is returned with its own role, action and
\* success where it had them and agent_name, the prompt's action (or
\* "unknown") and false where it had not, every other key as it was;
\* process returns an error response with success false only when there
\* was no object to complete.
C29_DefaultsBeforeValidation ==
    /\ process_pc = "validate" =>
          /\ parsed_response.role # "absent"
          /\ parsed_response.action # "absent"
          /\ parsed_response.success # "absent"
    /\ process_pc = "returned" =>
          IF \/ json_response.kind = "object"
             \/ json_response.kind = "fixable" /\ json_response.obj # NoObject
          THEN LET given == json_response.obj
               IN  /\ process_out.role =
                          IF given.role = "absent" THEN agent_name ELSE given.role
                   /\ process_out.action =
                          IF given.action # "absent" THEN given.action
                          ELSE IF input_data.action # "absent" THEN input_data.action
                          ELSE "unknown"
                   /\ process_out.success =
                          IF given.success = "absent" THEN "false" ELSE given.success
                   /\ process_out.extra = given.extra
                   /\ process_out.error = "absent"
          ELSE /\ process_out.success = "false"
               /\ process_out.error # "absent"
               /\ process_out.role = agent_name
               /\ process_out.action = "error"

\* an object with neither role nor action and a key of its own came back
\* with the defaults and that key
C29_Witness ==
    /\ process_pc = "returned"
    /\ json_response.kind = "object"
    /\ json_response.obj.role = "absent"
    /\ json_response.obj.action = "absent"
    /\ json_response.obj.extra = "x"
    /\ input_data.action = "navigate"
    /\ process_out = ResponseDict(agent_name, "navigate", "false", "x", "absent")

====
